---- MODULE Spec2Model ----
(***************************************************************************)
(* Model of the versioned model registry of PharmOS                        *)
(* (ml/models/versioning.py, class ModelRegistry).                         *)
(*                                                                         *)
(* Strings that take part in key construction (model ids, version ids)     *)
(* are sequences of one-character strings, so that the key                 *)
(* f"{model_id}:{version}" is a real concatenation and k.startswith(p) is  *)
(* a real prefix test.  An optional value (Python None / absent dict key)  *)
(* is a sequence of length 0, a present value a sequence of length 1.      *)
(* The created_at of a version (datetime.now()) is a reading of a          *)
(* strictly increasing clock, the time register_model reads is an input    *)
(* of the action; the deployed_at stamp of a slot is read by no            *)
(* operation and is left out of the slot record.                           *)
(*                                                                         *)
(* Modelled: register_model, create_version, deploy_version,               *)
(* rollback_deployment, tag_version, update_performance_metrics and        *)
(* delete_version on the in-memory collections models, versions,           *)
(* deployments, on the artifact files and on the three json files, and     *)
(* the read operations load_model, list_versions and compare_versions.     *)
(* A VersionRecord carries the eleven fields of ModelVersion, a            *)
(* ModelEntry the seven fields register_model stores.  The                 *)
(* performance_metrics of a record is a dict object: obj names the         *)
(* caller's dict when create_version stored the caller's own object,       *)
(* val is its content, and caller_metrics holds the content of the         *)
(* caller's objects.  An artifact file is named by the path                *)
(* models/<model_id>/<version>, a concatenation like the key, and holds    *)
(* the pickled bytes; model_hash is a digest computed from them.           *)
(* files holds models.json, versions.json and deployments.json as the      *)
(* last _save_* left them.  The *_fault actions are the runs of the        *)
(* handlers in which a write to one of these files or to an artifact       *)
(* file raises.  The create_version_* actions are the statements of one    *)
(* create_version call, kept in flight between them; crash_reload is a     *)
(* process stop followed by ModelRegistry.__init__ on the files.  The      *)
(* deploy_version_* step actions are the statements of deploy_version,     *)
(* with the calls that overlap kept in flight.                             *)
(***************************************************************************)
EXTENDS Integers, Sequences, FiniteSets, TLC

VARIABLES models, versions, deployments, artifacts, clock, last,
          files, flight, caller_metrics

vars == <<models, versions, deployments, artifacts, clock, last,
          files, flight, caller_metrics>>

(* ---------------------------- bounds ---------------------------------- *)

\* number of create_version calls that may succeed in one run
MaxClock == 2
\* Spec: a slot is replaced by a deploy while its nesting depth is below
\* MaxDepth, and by a rollback while it is at most MaxDepth
MaxDepth == 2
\* SpecDeploy: number of deploys and rollbacks one slot may go through
MaxHistory == 5

\* creations and slot depth explored with all seven operations together
MaxOpsClock == 1

MaxOpsDepth == 1

\* SpecDeployFaults: slot depth up to which deploys are started
MaxFaultDepth == 3

(* ---------------------------- inputs ---------------------------------- *)

ModelIds == { <<"a">>, <<"a", ":", "b">> }

VersionIds == { <<"1">>, <<"b", ":", "1">> }

DeploymentNames == { "prod" }

\* ids with a path separator, for the artifact directories
PathModelIds == { <<"a">>, <<"a", "/", "b">> }

PathVersionIds == { <<"c">>, <<"b", "/", "c">> }

\* model_type and description arguments of register_model
DefaultType == "qsar"

DefaultDescription == "none"

\* the time register_model reads where no claim is about the entry's stamp
DefaultTime == 0

\* the model instances callers hand to create_version
ModelInstances == { "ridge", "forest" }

\* the instance the specifications without artifact claims store
DefaultInstance == "ridge"

\* tags and metric updates callers pass
Tags == { "gold" }

MetricUpdates == { [k \in {"r2"} |-> 7] }

None == << >>

Some(x) == << x >>

(* ---------------------------- helpers --------------------------------- *)

\* version_key = f"{model_id}:{version}"
VersionKey(model_id, version) == model_id \o <<":">> \o version

\* k.startswith(p)
StartsWith(k, p) == Len(k) >= Len(p) /\ SubSeq(k, 1, Len(p)) = p

\* dict[key] = value
DictPut(d, key, value) ==
    [x \in (DOMAIN d) \cup {key} |-> IF x = key THEN value ELSE d[x]]

\* del dict[key]
DictDel(d, key) == [x \in (DOMAIN d) \ {key} |-> d[x]]

\* dict.get(key)
DictGet(d, key) == IF key \in DOMAIN d THEN Some(d[key]) ELSE None

EmptyDict == [x \in {} |-> None]

\* pickle.dump(model_instance, f): the bytes written for an instance
Pickle(model_instance) ==
    <<128, 4>> \o (IF model_instance = "ridge" THEN <<82, 105>> ELSE <<70, 111, 114>>) \o <<46>>

RECURSIVE Digest(_)
\* hashlib.md5(model_content).hexdigest(), as a 16-bit polynomial hash
Digest(bytes) ==
    IF bytes = << >> THEN 7
    ELSE (31 * Digest(SubSeq(bytes, 1, Len(bytes) - 1)) + bytes[Len(bytes)]) % 65536

\* A dict object that holds performance metrics.  obj is None for a dict
\* only its record refers to, and the name of the caller's object for a dict
\* the caller handed in: records naming one object share its content.
OwnDict(val) == [ obj |-> None, val |-> val ]

\* ModelVersion.__init__
ModelVersion(model_id, version, model_type, created_at) ==
    [ model_id            |-> model_id,
      version             |-> version,
      model_type          |-> model_type,
      created_at          |-> created_at,
      metadata            |-> EmptyDict,
      performance_metrics |-> OwnDict(EmptyDict),
      training_data_hash  |-> None,
      model_hash          |-> None,
      deployment_status   |-> "created",
      parent_version      |-> None,
      tags                |-> << >> ]

\* the optional arguments of create_version when the caller gives none
NoOptions ==
    [ training_data       |-> None,
      performance_metrics |-> None,
      metadata            |-> None,
      parent_version      |-> None ]

\* code points of the one-character strings used in training data
CharCode(c) == IF c = "x" THEN 120 ELSE IF c = "y" THEN 121 ELSE 122

RECURSIVE SortedCodes(_)
\* ''.join(sorted(training_data)).encode(), for one-character items
SortedCodes(training_data) ==
    IF training_data = << >> THEN << >>
    ELSE LET i == CHOOSE j \in 1..Len(training_data) :
                    \A o \in 1..Len(training_data) :
                      CharCode(training_data[j]) <= CharCode(training_data[o])
             rest == [ n \in 1..(Len(training_data) - 1) |->
                         IF n < i THEN training_data[n] ELSE training_data[n + 1] ]
         IN  << CharCode(training_data[i]) >> \o SortedCodes(rest)

\* "if training_data:" ... hashlib.md5(data_str.encode()).hexdigest()
TrainingDataHash(training_data) ==
    IF training_data = None \/ training_data[1] = << >> THEN None
    ELSE Some(Digest(SortedCodes(training_data[1])))

\* "performance_metrics or {}": the caller's dict object itself unless it is
\* absent or empty; heap gives the present content of the caller's objects
MetricsObject(performance_metrics, heap) ==
    IF performance_metrics = None THEN OwnDict(EmptyDict)
    ELSE IF heap[performance_metrics[1]] = EmptyDict THEN OwnDict(EmptyDict)
    ELSE [ obj |-> performance_metrics, val |-> heap[performance_metrics[1]] ]

\* the ModelVersion create_version builds before it writes the artifact
PreparedVersion(entry, model_id, version, created_at, opts, heap) ==
    [ ModelVersion(model_id, version, entry.model_type, created_at) EXCEPT
        !.metadata = IF opts.metadata = None THEN EmptyDict ELSE opts.metadata[1],
        !.performance_metrics = MetricsObject(opts.performance_metrics, heap),
        !.parent_version = opts.parent_version,
        !.training_data_hash = TrainingDataHash(opts.training_data) ]

\* the ModelVersion create_version stores for an artifact file content
CreatedVersion(model_version, model_content) ==
    [ model_version EXCEPT !.model_hash = Some(Digest(model_content)) ]

\* an entry that starts with a version count of one
ModelEntry_Counted(model_id, model_type, description, created_at) ==
    [ model_id       |-> model_id,
      model_type     |-> model_type,
      description    |-> description,
      created_at     |-> created_at,
      latest_version |-> None,
      total_versions |-> 1,
      status         |-> "active" ]

\* the entry register_model stores; created_at is the time the call reads
ModelEntry(model_id, model_type, description, created_at) ==
    [ model_id       |-> model_id,
      model_type     |-> model_type,
      description    |-> description,
      created_at     |-> created_at,
      latest_version |-> None,
      total_versions |-> 0,
      status         |-> "active" ]

\* ModelVersion.to_dict as json.dump writes it: the content of the metrics
\* dict, not the object
ToDict(model_version) ==
    [ model_id            |-> model_version.model_id,
      version             |-> model_version.version,
      model_type          |-> model_version.model_type,
      created_at          |-> model_version.created_at,
      metadata            |-> model_version.metadata,
      performance_metrics |-> model_version.performance_metrics.val,
      training_data_hash  |-> model_version.training_data_hash,
      model_hash          |-> model_version.model_hash,
      deployment_status   |-> model_version.deployment_status,
      parent_version      |-> model_version.parent_version,
      tags                |-> model_version.tags ]

\* ModelVersion.from_dict on a dict json.load returned
FromDict(data) ==
    [ ModelVersion(data.model_id, data.version, data.model_type, data.created_at)
      EXCEPT
        !.metadata = data.metadata,
        !.performance_metrics = OwnDict(data.performance_metrics),
        !.training_data_hash = data.training_data_hash,
        !.model_hash = data.model_hash,
        !.deployment_status = data.deployment_status,
        !.parent_version = data.parent_version,
        !.tags = data.tags ]

\* A json file of the registry directory: absent, written whole ("ok", with
\* its content in data), or cut short by a write that raised ("truncated").
NoFile == [ state |-> "absent", data |-> EmptyDict ]

WrittenFile(data) == [ state |-> "ok", data |-> data ]

TruncatedFile == [ state |-> "truncated", data |-> EmptyDict ]

\* the registry directory before the first save
NoFiles == [ models |-> NoFile, versions |-> NoFile, deployments |-> NoFile ]

\* _save_models
SaveModels(fs, ms) == [ fs EXCEPT !.models = WrittenFile(ms) ]

\* _save_versions
SaveVersions(fs, vs) ==
    [ fs EXCEPT !.versions = WrittenFile([ k \in DOMAIN vs |-> ToDict(vs[k]) ]) ]

\* _save_deployments
SaveDeployments(fs, ds) == [ fs EXCEPT !.deployments = WrittenFile(ds) ]

\* a _save_* that raises: the write that fails is the json.dump, after
\* open(..., 'w') has emptied the file, so the old content is lost and what
\* is on disk is no complete json document
FailedSave(fs, name) == { [ fs EXCEPT ![name] = TruncatedFile ] }

\* the content of the caller's dict objects before any call
InitCallerMetrics == [ n \in { "m0" } |-> [ k \in { "r2" } |-> 5 ] ]

RECURSIVE Depth(_)
\* nesting depth of an optional slot
Depth(optSlot) ==
    IF optSlot = None THEN 0
    ELSE LET a == Depth(optSlot[1].previous_deployment)
             b == Depth(optSlot[1].rollback_from)
         IN  1 + (IF a >= b THEN a ELSE b)

\* the call just made, the durable write that raised in it ("none" when
\* every write went through) and how the call ended: "ok" and the refusals
\* are result envelopes, "PersistenceError" is the envelope an except
\* clause returns, "raised" and "KeyError" are exceptions reaching the caller
FaultCall(op, model_id, version, deployment_name, force, rollback_on_failure, fault, outcome) ==
    [ op |-> op, model_id |-> model_id, version |-> version,
      deployment_name |-> deployment_name, force |-> force,
      rollback_on_failure |-> rollback_on_failure, fault |-> fault,
      outcome |-> outcome, result |-> None ]

\* a call in which no durable write raised (rollback_on_failure defaults to True)
Call(op, model_id, version, deployment_name, force, outcome) ==
    FaultCall(op, model_id, version, deployment_name, force, TRUE, "none", outcome)

\* model_dir = self.registry_path / "models" / model_id / version
ArtifactPath(model_id, version) == model_id \o <<"/">> \o version

\* shutil.rmtree(model_dir): every file in or below model_dir is removed
RmTree(tree, model_dir) ==
    [ f \in { x \in DOMAIN tree :
                ~(x = model_dir \/ StartsWith(x, model_dir \o <<"/">>)) } |-> tree[f] ]

(* ---------------------------- state ----------------------------------- *)

Init ==
    /\ models = EmptyDict
    /\ versions = EmptyDict
    /\ deployments = EmptyDict
    /\ artifacts = EmptyDict
    /\ clock = 0
    /\ last = Call("init", None, None, "-", FALSE, "ok")
    /\ files = NoFiles
    /\ flight = None
    /\ caller_metrics = InitCallerMetrics

(* ---------------------------- operations ------------------------------ *)

\* register_model storing the entry before it looks for an existing one
register_model_Overwrite(model_id, model_type, description, now) ==
    /\ models' = DictPut(models, model_id, ModelEntry(model_id, model_type, description, now))
    /\ last' = Call("register", model_id, None, "-", FALSE,
                    IF model_id \in DOMAIN models THEN "AlreadyExists" ELSE "ok")
    /\ files' = SaveModels(files, models')
    /\ UNCHANGED <<versions, deployments, artifacts, clock, flight, caller_metrics>>

register_model(model_id, model_type, description, now) ==
    IF model_id \in DOMAIN models
    THEN /\ last' = Call("register", model_id, None, "-", FALSE, "AlreadyExists")
         /\ UNCHANGED <<models, versions, deployments, artifacts, clock, files, flight, caller_metrics>>
    ELSE /\ models' = DictPut(models, model_id, ModelEntry(model_id, model_type, description, now))
         /\ last' = Call("register", model_id, None, "-", FALSE, "ok")
         /\ files' = SaveModels(files, models')
         /\ UNCHANGED <<versions, deployments, artifacts, clock, flight, caller_metrics>>

\* create_version naming the new version latest without counting it
EntryAfterCreate_NoCount(entry, version) ==
    [ entry EXCEPT !.latest_version = Some(version) ]

\* self.models[model_id] after the "update model info" lines of create_version
EntryAfterCreate(entry, version) ==
    [ entry EXCEPT !.latest_version = Some(version),
                   !.total_versions = @ + 1 ]

\* create_version without the check for an existing version_key
CreateGuard_Upsert(ms, vs, model_id, version) ==
    IF model_id \notin DOMAIN ms THEN "NotFound" ELSE "ok"

\* the two checks of create_version: "ok" lets the creation proceed
CreateGuard(ms, vs, model_id, version) ==
    IF model_id \notin DOMAIN ms THEN "NotFound"
    ELSE IF VersionKey(model_id, version) \in DOMAIN vs THEN "AlreadyExists"
    ELSE "ok"

create_version(model_id, version, model_instance, opts) ==
    LET version_key == VersionKey(model_id, version)
        model_file == ArtifactPath(model_id, version)
        guard == CreateGuard(models, versions, model_id, version)
    IN
    IF guard # "ok"
    THEN /\ last' = Call("create", model_id, version, "-", FALSE, guard)
         /\ UNCHANGED <<models, versions, deployments, artifacts, clock, files, flight, caller_metrics>>
    ELSE /\ clock < MaxClock
         /\ clock' = clock + 1
         /\ artifacts' = DictPut(artifacts, model_file, Pickle(model_instance))
         /\ versions' = DictPut(versions, version_key,
                                CreatedVersion(
                                  PreparedVersion(models[model_id], model_id, version,
                                                  clock + 1, opts, caller_metrics),
                                  Pickle(model_instance)))
         /\ models' = [models EXCEPT ![model_id] = EntryAfterCreate(@, version)]
         /\ last' = Call("create", model_id, version, "-", FALSE, "ok")
         /\ files' = SaveModels(SaveVersions(files, versions'), models')
         /\ UNCHANGED <<deployments, flight, caller_metrics>>

\* deploy_version storing no snapshot of the slot it replaces
DeployedSlot_NoSnapshot(model_id, version, current_deployment) ==
    [ model_id            |-> model_id,
      version             |-> version,
      status              |-> "active",
      previous_deployment |-> None,
      rollback_from       |-> None ]

\* the dict deploy_version stores in self.deployments[deployment_name]
DeployedSlot(model_id, version, current_deployment) ==
    [ model_id            |-> model_id,
      version             |-> version,
      status              |-> "active",
      previous_deployment |-> current_deployment,
      rollback_from       |-> None ]

\* deploy_version without the "mark previous version as superseded" write
DeployStatuses_NoSupersede(vs, version_key, current_deployment) ==
    [vs EXCEPT ![version_key].deployment_status = "deployed"]

\* the two deployment_status writes of deploy_version
DeployStatuses(vs, version_key, current_deployment) ==
    LET vs1 == [vs EXCEPT ![version_key].deployment_status = "deployed"] IN
    IF current_deployment # None
    THEN LET prev_version_key == VersionKey(current_deployment[1].model_id,
                                            current_deployment[1].version)
         IN  IF prev_version_key \in DOMAIN vs1
             THEN [vs1 EXCEPT ![prev_version_key].deployment_status = "superseded"]
             ELSE vs1
    ELSE vs1

deploy_version(model_id, version, deployment_name) ==
    LET version_key == VersionKey(model_id, version)
        current_deployment == DictGet(deployments, deployment_name)
    IN
    IF version_key \notin DOMAIN versions
    THEN /\ last' = Call("deploy", model_id, version, deployment_name, FALSE, "NotFound")
         /\ UNCHANGED <<models, versions, deployments, artifacts, clock, files, flight, caller_metrics>>
    ELSE /\ deployments' = DictPut(deployments, deployment_name,
                              DeployedSlot(model_id, version, current_deployment))
         /\ versions' = DeployStatuses(versions, version_key, current_deployment)
         /\ last' = Call("deploy", model_id, version, deployment_name, FALSE, "ok")
         /\ files' = SaveVersions(SaveDeployments(files, deployments'), versions')
         /\ UNCHANGED <<models, artifacts, clock, flight, caller_metrics>>

\* rollback_deployment recording the restored snapshot, not the replaced slot
RolledBackSlot_WrongAudit(current_deployment) ==
    [ current_deployment.previous_deployment[1] EXCEPT
        !.status = "active",
        !.rollback_from = current_deployment.previous_deployment ]

\* the dict rollback_deployment stores in self.deployments[deployment_name]
RolledBackSlot(current_deployment) ==
    [ current_deployment.previous_deployment[1] EXCEPT
        !.status = "active",
        !.rollback_from = Some(current_deployment) ]

\* rollback_deployment marking the replaced version superseded, as deploy does
RollbackStatuses_Superseded(vs, current_deployment) ==
    LET previous_deployment == current_deployment.previous_deployment[1]
        current_version_key == VersionKey(current_deployment.model_id,
                                          current_deployment.version)
        prev_version_key == VersionKey(previous_deployment.model_id,
                                       previous_deployment.version)
        vs1 == IF current_version_key \in DOMAIN vs
               THEN [vs EXCEPT ![current_version_key].deployment_status = "superseded"]
               ELSE vs
    IN  IF prev_version_key \in DOMAIN vs1
        THEN [vs1 EXCEPT ![prev_version_key].deployment_status = "deployed"]
        ELSE vs1

\* a rollback that leaves the status of the version it rolls back from
RollbackStatuses_KeepCurrent(vs, current_deployment) ==
    LET previous_deployment == current_deployment.previous_deployment[1]
        prev_version_key == VersionKey(previous_deployment.model_id,
                                       previous_deployment.version)
    IN  IF prev_version_key \in DOMAIN vs
        THEN [vs EXCEPT ![prev_version_key].deployment_status = "deployed"]
        ELSE vs

\* the two deployment_status writes of rollback_deployment
RollbackStatuses(vs, current_deployment) ==
    LET previous_deployment == current_deployment.previous_deployment[1]
        current_version_key == VersionKey(current_deployment.model_id,
                                          current_deployment.version)
        prev_version_key == VersionKey(previous_deployment.model_id,
                                       previous_deployment.version)
        vs1 == IF current_version_key \in DOMAIN vs
               THEN [vs EXCEPT ![current_version_key].deployment_status = "rolled_back"]
               ELSE vs
    IN  IF prev_version_key \in DOMAIN vs1
        THEN [vs1 EXCEPT ![prev_version_key].deployment_status = "deployed"]
        ELSE vs1

\* rollback_deployment with the two checks merged into one lookup
\* (self.deployments.get(name, {}).get('previous_deployment'))
RollbackGuard_MergedChecks(ds, deployment_name) ==
    IF deployment_name \notin DOMAIN ds THEN "InvalidOperation"
    ELSE IF ds[deployment_name].previous_deployment = None THEN "InvalidOperation"
    ELSE "ok"

\* the two checks of rollback_deployment: "ok" lets the rollback proceed
RollbackGuard(ds, deployment_name) ==
    IF deployment_name \notin DOMAIN ds THEN "NotFound"
    ELSE IF ds[deployment_name].previous_deployment = None THEN "InvalidOperation"
    ELSE "ok"

rollback_deployment(deployment_name) ==
    LET guard == RollbackGuard(deployments, deployment_name) IN
    IF guard # "ok"
    THEN /\ last' = Call("rollback", None, None, deployment_name, FALSE, guard)
         /\ UNCHANGED <<models, versions, deployments, artifacts, clock, files, flight, caller_metrics>>
    ELSE LET current_deployment == deployments[deployment_name] IN
         /\ deployments' = [deployments EXCEPT
                              ![deployment_name] = RolledBackSlot(current_deployment)]
         /\ versions' = RollbackStatuses(versions, current_deployment)
         /\ last' = Call("rollback", None, None, deployment_name, FALSE, "ok")
         /\ files' = SaveVersions(SaveDeployments(files, deployments'), versions')
         /\ UNCHANGED <<models, artifacts, clock, flight, caller_metrics>>

\* self.versions[version_key].tags after tag_version
\* tags.append(tag) without the membership test
TagsAfter_Append(tags, tag) == Append(tags, tag)

TagsAfter(tags, tag) ==
    IF \E i \in 1..Len(tags) : tags[i] = tag THEN tags ELSE Append(tags, tag)

tag_version(model_id, version, tag) ==
    LET version_key == VersionKey(model_id, version) IN
    IF version_key \notin DOMAIN versions
    THEN /\ last' = Call("tag", model_id, version, "-", FALSE, "NotFound")
         /\ UNCHANGED <<models, versions, deployments, artifacts, clock, files, flight, caller_metrics>>
    ELSE /\ versions' = [versions EXCEPT ![version_key].tags = TagsAfter(@, tag)]
         /\ last' = [ Call("tag", model_id, version, "-", FALSE, "ok")
                      EXCEPT !.result = Some(tag) ]
         \* _save_versions() is called only when the tag was appended
         /\ files' = IF versions' # versions THEN SaveVersions(files, versions')
                     ELSE files
         /\ UNCHANGED <<models, deployments, artifacts, clock, flight, caller_metrics>>

\* performance_metrics.update(metrics), on the content of the dict
MetricsAfter(performance_metrics, metrics) ==
    [k \in (DOMAIN performance_metrics) \cup (DOMAIN metrics) |->
        IF k \in DOMAIN metrics THEN metrics[k] ELSE performance_metrics[k]]

\* an update that stores the metrics in the metadata dict of the record
VersionsAfterUpdate_IntoMetadata(vs, version_key, metrics) ==
    [ vs EXCEPT ![version_key].metadata = MetricsAfter(@, metrics) ]

\* self.versions after self.versions[version_key].performance_metrics
\* .update(metrics): every record that holds the updated dict object shows
\* the new content
VersionsAfterUpdate(vs, version_key, metrics) ==
    LET updated == vs[version_key].performance_metrics
        content == MetricsAfter(updated.val, metrics)
    IN  [ k \in DOMAIN vs |->
            IF k = version_key
               \/ (updated.obj # None /\ vs[k].performance_metrics.obj = updated.obj)
            THEN [ vs[k] EXCEPT !.performance_metrics.val = content ]
            ELSE vs[k] ]

\* the caller's dict objects after the same update
CallerMetricsAfterUpdate(heap, vs, version_key, metrics) ==
    LET updated == vs[version_key].performance_metrics IN
    IF updated.obj = None THEN heap
    ELSE [ heap EXCEPT ![updated.obj[1]] = MetricsAfter(updated.val, metrics) ]

update_performance_metrics(model_id, version, metrics) ==
    LET version_key == VersionKey(model_id, version) IN
    IF version_key \notin DOMAIN versions
    THEN /\ last' = Call("metrics", model_id, version, "-", FALSE, "NotFound")
         /\ UNCHANGED <<models, versions, deployments, artifacts, clock, files, flight, caller_metrics>>
    ELSE /\ versions' = VersionsAfterUpdate(versions, version_key, metrics)
         /\ caller_metrics' = CallerMetricsAfterUpdate(caller_metrics, versions,
                                                       version_key, metrics)
         /\ last' = Call("metrics", model_id, version, "-", FALSE, "ok")
         /\ files' = SaveVersions(files, versions')
         /\ UNCHANGED <<models, deployments, artifacts, clock, flight>>

\* delete_version without the check on deployment_status
DeleteGuard_NoDeployedCheck(vs, ms, model_id, version, force) ==
    LET version_key == VersionKey(model_id, version) IN
    IF version_key \notin DOMAIN vs THEN "NotFound"
    ELSE IF model_id \notin DOMAIN ms THEN "KeyError"
    ELSE IF ms[model_id].latest_version = Some(version) /\ ~force
    THEN "InvalidOperation"
    ELSE "ok"

\* the safety checks of delete_version: "ok" lets the deletion proceed
DeleteGuard(vs, ms, model_id, version, force) ==
    LET version_key == VersionKey(model_id, version) IN
    IF version_key \notin DOMAIN vs THEN "NotFound"
    ELSE IF vs[version_key].deployment_status = "deployed" /\ ~force
    THEN "InvalidOperation"
    ELSE IF model_id \notin DOMAIN ms THEN "KeyError"
    ELSE IF ms[model_id].latest_version = Some(version) /\ ~force
    THEN "InvalidOperation"
    ELSE "ok"

\* remaining_versions = [v for k, v in self.versions.items()
\*                       if k.startswith(f"{model_id}:")]
RemainingVersions(vs, model_id) ==
    { vs[k] : k \in { x \in DOMAIN vs : StartsWith(x, model_id \o <<":">>) } }

\* the value delete_version gives latest_version when it removed the latest
NewLatest(vs, model_id) ==
    LET remaining_versions == RemainingVersions(vs, model_id) IN
    IF remaining_versions # {}
    THEN LET latest == CHOOSE r \in remaining_versions :
                          \A o \in remaining_versions : o.created_at <= r.created_at
         IN  Some(latest.version)
    ELSE None

\* delete_version without the total_versions decrement
EntryAfterDelete_NoDecrement(entry, vs, model_id, version) ==
    [ entry EXCEPT
        !.latest_version = IF @ = Some(version) THEN NewLatest(vs, model_id) ELSE @ ]

\* the ModelEntry of model_id after delete_version removed version
EntryAfterDelete(entry, vs, model_id, version) ==
    [ entry EXCEPT
        !.total_versions = @ - 1,
        !.latest_version = IF @ = Some(version) THEN NewLatest(vs, model_id) ELSE @ ]

delete_version(model_id, version, force) ==
    LET version_key == VersionKey(model_id, version)
        guard == DeleteGuard(versions, models, model_id, version, force)
    IN
    IF guard # "ok"
    THEN /\ last' = Call("delete", model_id, version, "-", force, guard)
         /\ UNCHANGED <<models, versions, deployments, artifacts, clock, files, flight, caller_metrics>>
    ELSE /\ artifacts' = RmTree(artifacts, ArtifactPath(model_id, version))
         /\ versions' = DictDel(versions, version_key)
         /\ models' = [models EXCEPT ![model_id] =
                         EntryAfterDelete(@, DictDel(versions, version_key),
                                          model_id, version)]
         /\ last' = Call("delete", model_id, version, "-", force, "ok")
         /\ files' = SaveModels(SaveVersions(files, versions'), models')
         /\ UNCHANGED <<deployments, clock, flight, caller_metrics>>

(* ------------- operations in which a durable write raises ------------- *)

\* A write to models.json, versions.json, deployments.json or to the
\* artifact directory raises (disk full, permission, unpicklable instance).
\* Each action below is the handler run in which the named write is the
\* first to raise; it is enabled where the handler reaches that write.

\* _save_models() raises in register_model, which has no try block
register_model_fault(model_id, model_type, description, now) ==
    /\ model_id \notin DOMAIN models
    /\ models' = DictPut(models, model_id, ModelEntry(model_id, model_type, description, now))
    /\ last' = FaultCall("register", model_id, None, "-", FALSE, TRUE,
                         "save_models", "raised")
    /\ \E fs \in FailedSave(files, "models") : files' = fs
    /\ UNCHANGED <<versions, deployments, artifacts, clock, flight, caller_metrics>>

\* what a failed open(model_file, 'wb') / pickle.dump can leave in the file
PartialWrites(model_content) ==
    { SubSeq(model_content, 1, n) : n \in 0..(Len(model_content) - 1) }

CreateFaults == { "mkdir", "artifact", "save_versions", "save_models" }

\* create_version assigning self.versions[version_key] before it pickles
ReachedAssignments_BeforeArtifact(fault) == fault # "mkdir"

\* the writes that raise after self.versions[version_key] and the ModelEntry
\* fields have been assigned
ReachedAssignments(fault) == fault \in { "save_versions", "save_models" }

create_version_fault(model_id, version, model_instance, fault) ==
    LET version_key == VersionKey(model_id, version)
        model_file == ArtifactPath(model_id, version)
        model_content == Pickle(model_instance)
    IN
    /\ CreateGuard(models, versions, model_id, version) = "ok"
    \* ModelVersion(...) has read the time before any write is attempted
    /\ clock < MaxClock
    /\ clock' = clock + 1
    /\ \E tree \in
           IF fault = "mkdir" THEN { artifacts }
           ELSE IF fault = "artifact"
           THEN { artifacts } \cup { DictPut(artifacts, model_file, c) :
                                      c \in PartialWrites(model_content) }
           ELSE { DictPut(artifacts, model_file, model_content) } :
         artifacts' = tree
    /\ IF ReachedAssignments(fault)
       THEN /\ versions' = DictPut(versions, version_key,
                                   CreatedVersion(
                                     PreparedVersion(models[model_id], model_id, version,
                                                     clock + 1, NoOptions, caller_metrics),
                                     model_content))
            /\ models' = [models EXCEPT ![model_id] = EntryAfterCreate(@, version)]
       ELSE UNCHANGED <<models, versions>>
    \* _save_versions() raises, or it writes and _save_models() raises
    /\ \E fs \in
           IF fault = "save_versions" THEN FailedSave(files, "versions")
           ELSE IF fault = "save_models"
           THEN FailedSave(SaveVersions(files, versions'), "models")
           ELSE { files } :
         files' = fs
    \* model_dir.mkdir is outside the try block, the other writes inside it
    /\ last' = FaultCall("create", model_id, version, "-", FALSE, TRUE, fault,
                         IF fault = "mkdir" THEN "raised" ELSE "PersistenceError")
    /\ UNCHANGED <<deployments, flight, caller_metrics>>

\* deploy_version's except clause without the restoring assignment
SlotsAfterFailedDeploy_NoRestore(ds, deployment_name, model_id, version, rollback_on_failure) ==
    DictPut(ds, deployment_name,
            DeployedSlot(model_id, version, DictGet(ds, deployment_name)))

\* self.deployments when deploy_version leaves its except clause
SlotsAfterFailedDeploy(ds, deployment_name, model_id, version, rollback_on_failure) ==
    LET current_deployment == DictGet(ds, deployment_name)
        attempted == DictPut(ds, deployment_name,
                             DeployedSlot(model_id, version, current_deployment))
    IN  IF rollback_on_failure /\ current_deployment # None
        THEN DictPut(attempted, deployment_name, current_deployment[1])
        ELSE attempted

DeployFaults == { "save_deployments", "save_versions" }

\* deployments.json and versions.json when deploy_version leaves its except
\* clause: attempted and restored are self.deployments before and after the
\* except clause, vs is self.versions
FilesAfterFailedDeploy(fs, attempted, restored, vs, fault, compensates, compensation_fails) ==
    LET primary == IF fault = "save_deployments"
                   THEN FailedSave(fs, "deployments")
                   ELSE FailedSave(SaveDeployments(fs, attempted), "versions")
    IN  IF ~compensates THEN primary
        ELSE IF compensation_fails
        THEN UNION { FailedSave(f, "deployments") : f \in primary }
        ELSE { SaveDeployments(f, restored) : f \in primary }

\* compensation_fails: the _save_deployments() of the except clause raises too
deploy_version_fault(model_id, version, deployment_name, rollback_on_failure, fault, compensation_fails) ==
    LET version_key == VersionKey(model_id, version)
        current_deployment == DictGet(deployments, deployment_name)
        compensates == rollback_on_failure /\ current_deployment # None
    IN
    /\ version_key \in DOMAIN versions
    /\ compensation_fails => compensates
    /\ deployments' = SlotsAfterFailedDeploy(deployments, deployment_name,
                                             model_id, version, rollback_on_failure)
    /\ versions' = DeployStatuses(versions, version_key, current_deployment)
    /\ last' = FaultCall("deploy", model_id, version, deployment_name, FALSE,
                         rollback_on_failure, fault,
                         IF compensation_fails THEN "raised" ELSE "PersistenceError")
    /\ \E fs \in FilesAfterFailedDeploy(
                    files,
                    DictPut(deployments, deployment_name,
                            DeployedSlot(model_id, version, current_deployment)),
                    deployments', versions', fault, compensates, compensation_fails) :
         files' = fs
    /\ UNCHANGED <<models, artifacts, clock, flight, caller_metrics>>

RollbackFaults == { "save_deployments", "save_versions" }

rollback_deployment_fault(deployment_name, fault) ==
    /\ RollbackGuard(deployments, deployment_name) = "ok"
    /\ LET current_deployment == deployments[deployment_name] IN
       /\ deployments' = [deployments EXCEPT
                            ![deployment_name] = RolledBackSlot(current_deployment)]
       /\ versions' = RollbackStatuses(versions, current_deployment)
    /\ last' = FaultCall("rollback", None, None, deployment_name, FALSE, TRUE,
                         fault, "PersistenceError")
    /\ \E fs \in
           IF fault = "save_deployments" THEN FailedSave(files, "deployments")
           ELSE FailedSave(SaveDeployments(files, deployments'), "versions") :
         files' = fs
    /\ UNCHANGED <<models, artifacts, clock, flight, caller_metrics>>

\* _save_versions() raises in tag_version, which has no try block; the save
\* is reached only when the tag is new
tag_version_fault(model_id, version, tag) ==
    LET version_key == VersionKey(model_id, version) IN
    /\ version_key \in DOMAIN versions
    /\ TagsAfter(versions[version_key].tags, tag) # versions[version_key].tags
    /\ versions' = [versions EXCEPT ![version_key].tags = TagsAfter(@, tag)]
    /\ last' = FaultCall("tag", model_id, version, "-", FALSE, TRUE,
                         "save_versions", "raised")
    /\ \E fs \in FailedSave(files, "versions") : files' = fs
    /\ UNCHANGED <<models, deployments, artifacts, clock, flight, caller_metrics>>

\* _save_versions() raises in update_performance_metrics, which has no try block
update_performance_metrics_fault(model_id, version, metrics) ==
    LET version_key == VersionKey(model_id, version) IN
    /\ version_key \in DOMAIN versions
    /\ versions' = VersionsAfterUpdate(versions, version_key, metrics)
    /\ caller_metrics' = CallerMetricsAfterUpdate(caller_metrics, versions,
                                                  version_key, metrics)
    /\ last' = FaultCall("metrics", model_id, version, "-", FALSE, TRUE,
                         "save_versions", "raised")
    /\ \E fs \in FailedSave(files, "versions") : files' = fs
    /\ UNCHANGED <<models, deployments, artifacts, clock, flight>>

DeleteFaults == { "rmtree", "save_versions", "save_models" }

delete_version_fault(model_id, version, force, fault) ==
    LET version_key == VersionKey(model_id, version)
        model_dir == ArtifactPath(model_id, version)
    IN
    /\ DeleteGuard(versions, models, model_id, version, force) = "ok"
    /\ IF fault = "rmtree"
       THEN \* raises before "del self.versions[version_key]"; the tree may
            \* already have lost its files
            /\ \E tree \in { artifacts, RmTree(artifacts, model_dir) } :
                  artifacts' = tree
            /\ UNCHANGED <<models, versions, files>>
       ELSE /\ artifacts' = RmTree(artifacts, model_dir)
            /\ versions' = DictDel(versions, version_key)
            /\ models' = [models EXCEPT ![model_id] =
                            EntryAfterDelete(@, DictDel(versions, version_key),
                                             model_id, version)]
            /\ \E fs \in
                   IF fault = "save_versions" THEN FailedSave(files, "versions")
                   ELSE FailedSave(SaveVersions(files, versions'), "models") :
                 files' = fs
    /\ last' = FaultCall("delete", model_id, version, "-", force, TRUE,
                         fault, "PersistenceError")
    /\ UNCHANGED <<deployments, clock, flight, caller_metrics>>

(* ---------------------------- specifications -------------------------- *)

\* nesting depth of the slot of deployment_name (0 when there is none)
SlotDepth(deployment_name) == Depth(DictGet(deployments, deployment_name))

\* The whole registry, from an empty registry directory.
Next ==
    \/ \E m \in ModelIds : register_model(m, DefaultType, DefaultDescription, DefaultTime)
    \/ \E m \in ModelIds, v \in VersionIds : create_version(m, v, DefaultInstance, NoOptions)
    \/ \E m \in ModelIds, v \in VersionIds, d \in DeploymentNames :
          SlotDepth(d) < MaxDepth /\ deploy_version(m, v, d)
    \/ \E d \in DeploymentNames :
          SlotDepth(d) <= MaxDepth /\ rollback_deployment(d)
    \/ \E m \in ModelIds, v \in VersionIds, f \in BOOLEAN : delete_version(m, v, f)

Spec == Init /\ [][Next]_vars

\* The same operations with slots of at most one level of history, which
\* leaves room for a further creation when the bounds are raised.
NextLifecycle ==
    \/ \E m \in ModelIds : register_model(m, DefaultType, DefaultDescription, DefaultTime)
    \/ \E m \in ModelIds, v \in VersionIds : create_version(m, v, DefaultInstance, NoOptions)
    \/ \E m \in ModelIds, v \in VersionIds, d \in DeploymentNames :
          SlotDepth(d) < MaxOpsDepth /\ deploy_version(m, v, d)
    \/ \E d \in DeploymentNames :
          SlotDepth(d) <= MaxOpsDepth /\ rollback_deployment(d)
    \/ \E m \in ModelIds, v \in VersionIds, f \in BOOLEAN : delete_version(m, v, f)

SpecLifecycle == Init /\ [][NextLifecycle]_vars

\* The deployment tracker alone, on the registry as it is after
\* register_model("a"), create_version("a", "1"), create_version("a", "b:1").
InitDeployEntry ==
    [ ModelEntry(<<"a">>, DefaultType, DefaultDescription, DefaultTime) EXCEPT
        !.latest_version = Some(<<"b", ":", "1">>),
        !.total_versions = 2 ]

InitDeployVersion(version, created_at) ==
    CreatedVersion(PreparedVersion(InitDeployEntry, <<"a">>, version, created_at,
                                   NoOptions, InitCallerMetrics),
                   Pickle(DefaultInstance))

InitDeploy ==
    /\ models = DictPut(EmptyDict, <<"a">>, InitDeployEntry)
    /\ versions = DictPut(DictPut(EmptyDict,
                    VersionKey(<<"a">>, <<"1">>), InitDeployVersion(<<"1">>, 1)),
                    VersionKey(<<"a">>, <<"b", ":", "1">>),
                    InitDeployVersion(<<"b", ":", "1">>, 2))
    /\ deployments = EmptyDict
    /\ artifacts = DictPut(DictPut(EmptyDict,
                     ArtifactPath(<<"a">>, <<"1">>), Pickle(DefaultInstance)),
                     ArtifactPath(<<"a">>, <<"b", ":", "1">>), Pickle(DefaultInstance))
    /\ clock = 2
    /\ last = Call("create", <<"a">>, <<"b", ":", "1">>, "-", FALSE, "ok")
    /\ files = SaveModels(SaveVersions(NoFiles, versions), models)
    /\ flight = None
    /\ caller_metrics = InitCallerMetrics

NextDeploy ==
    \/ \E m \in ModelIds, v \in VersionIds, d \in DeploymentNames :
          SlotDepth(d) < MaxHistory /\ deploy_version(m, v, d)
    \/ \E d \in DeploymentNames :
          SlotDepth(d) < MaxHistory /\ rollback_deployment(d)

SpecDeploy == InitDeploy /\ [][NextDeploy]_vars

\* The deployment tracker with two deployment names, on the same loaded
\* registry as SpecDeploy.
SlotNames == { "prod", "staging" }

NextSlots ==
    \/ \E m \in ModelIds, v \in VersionIds, d \in SlotNames :
          SlotDepth(d) < MaxDepth /\ deploy_version(m, v, d)
    \/ \E d \in SlotNames :
          SlotDepth(d) <= MaxDepth /\ rollback_deployment(d)

SpecSlots == InitDeploy /\ [][NextSlots]_vars

\* create_version calls that are refused, whatever the time
CreateRefused(model_id, version) ==
    CreateGuard(models, versions, model_id, version) # "ok"

\* All seven mutating operations, from an empty registry directory.
NextOps ==
    \/ \E m \in ModelIds : register_model(m, DefaultType, DefaultDescription, DefaultTime)
    \/ \E m \in ModelIds, v \in VersionIds :
          /\ clock < MaxOpsClock \/ CreateRefused(m, v)
          /\ create_version(m, v, DefaultInstance, NoOptions)
    \/ \E m \in ModelIds, v \in VersionIds, d \in DeploymentNames :
          SlotDepth(d) < MaxOpsDepth /\ deploy_version(m, v, d)
    \/ \E d \in DeploymentNames :
          SlotDepth(d) <= MaxOpsDepth /\ rollback_deployment(d)
    \/ \E m \in ModelIds, v \in VersionIds, t \in Tags : tag_version(m, v, t)
    \/ \E m \in ModelIds, v \in VersionIds, u \in MetricUpdates :
          update_performance_metrics(m, v, u)
    \/ \E m \in ModelIds, v \in VersionIds, f \in BOOLEAN : delete_version(m, v, f)

SpecOps == Init /\ [][NextOps]_vars

\* The runs of the seven operations in which a durable write raises.
NextFaulty ==
    \/ \E m \in ModelIds : register_model_fault(m, DefaultType, DefaultDescription, DefaultTime)
    \/ \E m \in ModelIds, v \in VersionIds, x \in CreateFaults :
          /\ clock < MaxOpsClock
          /\ create_version_fault(m, v, DefaultInstance, x)
    \/ \E m \in ModelIds, v \in VersionIds, d \in DeploymentNames,
          r \in BOOLEAN, x \in DeployFaults, c \in BOOLEAN :
          SlotDepth(d) <= MaxOpsDepth /\ deploy_version_fault(m, v, d, r, x, c)
    \/ \E d \in DeploymentNames, x \in RollbackFaults :
          SlotDepth(d) <= MaxOpsDepth + 1 /\ rollback_deployment_fault(d, x)
    \/ \E m \in ModelIds, v \in VersionIds, t \in Tags : tag_version_fault(m, v, t)
    \/ \E m \in ModelIds, v \in VersionIds, u \in MetricUpdates :
          update_performance_metrics_fault(m, v, u)
    \/ \E m \in ModelIds, v \in VersionIds, f \in BOOLEAN, x \in DeleteFaults :
          delete_version_fault(m, v, f, x)

\* All seven operations on a store whose writes may raise.
NextFaults == NextOps \/ NextFaulty

SpecFaults == Init /\ [][NextFaults]_vars

\* The deployment tracker on the loaded registry of InitDeploy, with writes
\* that may raise.
NextDeployFaults ==
    \/ \E m \in ModelIds, v \in VersionIds, d \in DeploymentNames :
          SlotDepth(d) < MaxFaultDepth /\ deploy_version(m, v, d)
    \/ \E d \in DeploymentNames :
          SlotDepth(d) <= MaxFaultDepth /\ rollback_deployment(d)
    \/ \E m \in ModelIds, v \in VersionIds, d \in DeploymentNames,
          r \in BOOLEAN, x \in DeployFaults, c \in BOOLEAN :
          SlotDepth(d) <= MaxFaultDepth /\ deploy_version_fault(m, v, d, r, x, c)
    \/ \E d \in DeploymentNames, x \in RollbackFaults :
          SlotDepth(d) <= MaxFaultDepth /\ rollback_deployment_fault(d, x)

SpecDeployFaults == InitDeploy /\ [][NextDeployFaults]_vars

\* Registration, creation and deletion, with artifact and collection writes
\* that may raise.
NextCreate ==
    \/ \E m \in ModelIds : register_model(m, DefaultType, DefaultDescription, DefaultTime)
    \/ \E m \in ModelIds, v \in VersionIds, i \in ModelInstances :
          create_version(m, v, i, NoOptions)
    \/ \E m \in ModelIds, v \in VersionIds, i \in ModelInstances,
          x \in CreateFaults : create_version_fault(m, v, i, x)
    \/ \E m \in ModelIds, v \in VersionIds, f \in BOOLEAN : delete_version(m, v, f)

SpecCreate == Init /\ [][NextCreate]_vars

\* The operations that create, remove or leave alone artifact files, called
\* with ids that contain the path separator.
NextArtifacts ==
    \/ \E m \in PathModelIds : register_model(m, DefaultType, DefaultDescription, DefaultTime)
    \/ \E m \in PathModelIds, v \in PathVersionIds, i \in ModelInstances :
          create_version(m, v, i, NoOptions)
    \/ \E m \in PathModelIds, v \in PathVersionIds, f \in BOOLEAN :
          delete_version(m, v, f)
    \/ \E m \in PathModelIds, v \in PathVersionIds, d \in DeploymentNames :
          SlotDepth(d) < MaxOpsDepth /\ deploy_version(m, v, d)
    \/ \E d \in DeploymentNames :
          SlotDepth(d) <= MaxOpsDepth /\ rollback_deployment(d)
    \/ \E m \in PathModelIds, v \in PathVersionIds, t \in Tags : tag_version(m, v, t)
    \/ \E m \in PathModelIds, v \in PathVersionIds, u \in MetricUpdates :
          update_performance_metrics(m, v, u)

SpecArtifacts == Init /\ [][NextArtifacts]_vars

(* ---------------------------- claims ---------------------------------- *)

\* the key of the version a slot names as active
SlotKey(slot) == VersionKey(slot.model_id, slot.version)

StatusOf(vs, key) == vs[key].deployment_status

DeployOk(m, v, d) == Call("deploy", m, v, d, FALSE, "ok")

RollbackOk(d) == Call("rollback", None, None, d, FALSE, "ok")

\* C1: after every successful deploy(model_id, version, deployment_name) the
\* VersionRecord model_id:version has deployment_status = deployed, also
\* when that version already occupied the slot.
C1_DeployedAfterDeploy ==
    (last.op = "deploy" /\ last.outcome = "ok")
        => StatusOf(versions, VersionKey(last.model_id, last.version)) = "deployed"

\* C2: when the slot holds version v1 and a deploy of a different version v2
\* succeeds, then afterwards v1 (if its record still exists) is superseded,
\* v2 is deployed and the slot names v2.
C2_DeploySupersedes ==
    [][ \A m \in ModelIds, v \in VersionIds, d \in DeploymentNames :
          ( /\ last' = DeployOk(m, v, d)
            /\ d \in DOMAIN deployments
            /\ SlotKey(deployments[d]) # VersionKey(m, v) )
          => /\ deployments'[d].model_id = m
             /\ deployments'[d].version = v
             /\ StatusOf(versions', VersionKey(m, v)) = "deployed"
             /\ SlotKey(deployments[d]) \in DOMAIN versions'
                  => StatusOf(versions', SlotKey(deployments[d])) = "superseded"
      ]_vars

\* C2 witness: a deploy has replaced a slot that held another, still
\* existing, version.
C2_Witness ==
    \E d \in DOMAIN deployments :
      LET slot == deployments[d] IN
      /\ last = DeployOk(slot.model_id, slot.version, d)
      /\ slot.previous_deployment # None
      /\ SlotKey(slot.previous_deployment[1]) # SlotKey(slot)
      /\ SlotKey(slot.previous_deployment[1]) \in DOMAIN versions
      /\ StatusOf(versions, SlotKey(slot.previous_deployment[1])) = "superseded"
      /\ StatusOf(versions, SlotKey(slot)) = "deployed"

\* C3: redeploying the version that is already the active, deployed version
\* of the slot changes neither the slot nor any deployment_status.
C3_RedeployIsNoOp ==
    [][ \A m \in ModelIds, v \in VersionIds, d \in DeploymentNames :
          ( /\ last' = DeployOk(m, v, d)
            /\ d \in DOMAIN deployments
            /\ deployments[d].model_id = m
            /\ deployments[d].version = v
            /\ StatusOf(versions, VersionKey(m, v)) = "deployed" )
          => /\ deployments' = deployments
             /\ versions' = versions
      ]_vars

\* C4: a rollback that immediately follows a successful rollback of the
\* same slot fails with InvalidOperation and changes nothing.
C4_SecondRollbackFails ==
    [][ ( /\ last.op = "rollback"
          /\ last.outcome = "ok"
          /\ last'.op = "rollback"
          /\ last'.deployment_name = last.deployment_name )
        => /\ last'.outcome = "InvalidOperation"
           /\ deployments' = deployments
           /\ versions' = versions
      ]_vars

\* C5: the snapshot a slot keeps in previous_deployment carries no
\* previous_deployment of its own.
C5_OneLevelOfHistory ==
    \A d \in DOMAIN deployments :
      deployments[d].previous_deployment # None
        => deployments[d].previous_deployment[1].previous_deployment = None

\* C6: after every successful rollback the version that was active before
\* the call is rolled_back and the version active after it is deployed.
C6_RollbackStatuses ==
    [][ \A d \in DeploymentNames :
          ( last' = RollbackOk(d) /\ d \in DOMAIN deployments )
          => /\ SlotKey(deployments[d]) \in DOMAIN versions'
                  => StatusOf(versions', SlotKey(deployments[d])) = "rolled_back"
             /\ SlotKey(deployments'[d]) \in DOMAIN versions'
                  => StatusOf(versions', SlotKey(deployments'[d])) = "deployed"
      ]_vars

DeleteCall(m, v, f, outcome) == Call("delete", m, v, "-", f, outcome)

\* C7: without force, delete_version succeeds only on a version that is
\* neither deployed nor the model's latest_version; when either guard is
\* violated the call fails and models, versions, deployments and the
\* stored artifacts stay as they were.
C7_UnforcedDeleteGuards ==
    [][ \A m \in ModelIds, v \in VersionIds :
          LET key == VersionKey(m, v) IN
          /\ last' = DeleteCall(m, v, FALSE, "ok")
               => /\ key \in DOMAIN versions
                  /\ StatusOf(versions, key) # "deployed"
                  /\ models[m].latest_version # Some(v)
          /\ ( /\ last'.op = "delete" /\ last'.force = FALSE
               /\ last'.model_id = m /\ last'.version = v
               /\ key \in DOMAIN versions
               /\ \/ StatusOf(versions, key) = "deployed"
                  \/ m \in DOMAIN models /\ models[m].latest_version = Some(v) )
               => /\ last'.outcome = "InvalidOperation"
                  /\ UNCHANGED <<models, versions, deployments, artifacts>>
      ]_vars

\* C7 witness: an unforced delete of a deployed version that is not the
\* latest one has been refused.
C7_Witness ==
    /\ last.op = "delete" /\ last.force = FALSE
    /\ last.outcome = "InvalidOperation"
    /\ VersionKey(last.model_id, last.version) \in DOMAIN versions
    /\ StatusOf(versions, VersionKey(last.model_id, last.version)) = "deployed"
    /\ last.model_id \in DOMAIN models
    /\ models[last.model_id].latest_version # Some(last.version)
    /\ models[last.model_id].total_versions = 2

\* the VersionRecords whose model_id is model_id
RecordsOf(vs, model_id) == { vs[k] : k \in { x \in DOMAIN vs : vs[x].model_id = model_id } }

\* C8: when delete_version removes the model's current latest_version,
\* latest_version becomes the remaining version of that model_id with the
\* greatest created_at, or null when no version of that model remains.
C8_LatestRecomputed ==
    [][ \A m \in ModelIds, v \in VersionIds :
          ( /\ last' = DeleteCall(m, v, TRUE, "ok")
            /\ models[m].latest_version = Some(v) )
          => LET remaining == RecordsOf(versions', m) IN
             IF remaining = {}
             THEN models'[m].latest_version = None
             ELSE \E r \in remaining :
                    /\ models'[m].latest_version = Some(r.version)
                    /\ \A o \in remaining : o.created_at <= r.created_at
      ]_vars

C10_OneDirectional ==
    [][ \A k \in (DOMAIN versions) \cap (DOMAIN versions') :
          \/ last'.op \notin {"deploy", "rollback"}
          \/ StatusOf(versions', k) = StatusOf(versions, k)
          \/ <<StatusOf(versions, k), StatusOf(versions', k)>> \in
                { <<"created", "deployed">>,
                  <<"deployed", "superseded">>,
                  <<"deployed", "rolled_back">> }
      ]_vars

\* C10 as amended: under deploy and rollback a deployment_status never
\* returns to created; a version becomes superseded only as the slot's
\* previous version in a deploy, rolled_back only as the version a rollback
\* replaces, and deployed only as the target of a deploy or the version a
\* rollback restores (so superseded and rolled_back are not final).
C10_StatusMoves ==
    [][ \A k \in (DOMAIN versions) \cap (DOMAIN versions'), d \in DeploymentNames :
          LET s == StatusOf(versions, k)
              t == StatusOf(versions', k)
          IN  ( /\ last'.op \in {"deploy", "rollback"}
                /\ last'.deployment_name = d
                /\ s # t ) =>
              /\ t # "created"
              /\ t = "superseded" =>
                    /\ last'.op = "deploy"
                    /\ d \in DOMAIN deployments
                    /\ k = SlotKey(deployments[d])
              /\ t = "rolled_back" =>
                    /\ last'.op = "rollback"
                    /\ k = SlotKey(deployments[d])
              /\ t = "deployed" =>
                    \/ /\ last'.op = "deploy"
                       /\ k = VersionKey(last'.model_id, last'.version)
                    \/ /\ last'.op = "rollback"
                       /\ k = SlotKey(deployments[d].previous_deployment[1])
      ]_vars

\* C10 witness: a rollback has made a superseded version deployed again.
C10_Witness ==
    \E d \in DOMAIN deployments :
      LET slot == deployments[d] IN
      /\ last = RollbackOk(d)
      /\ slot.rollback_from # None
      /\ SlotKey(slot.rollback_from[1]) # SlotKey(slot)
      /\ StatusOf(versions, SlotKey(slot)) = "deployed"
      /\ StatusOf(versions, SlotKey(slot.rollback_from[1])) = "rolled_back"

\* C11: a successful deploy replaces the slot of deployment_name by a slot
\* with the arguments as model_id and version, status active, the slot
\* content from before the call as previous_deployment (absent if there
\* was none) and no rollback_from; the slots of other names are unchanged.
C11_DeployWritesSlot ==
    [][ \A m \in ModelIds, v \in VersionIds, d \in SlotNames :
          last' = DeployOk(m, v, d)
          => /\ d \in DOMAIN deployments'
             /\ deployments'[d].model_id = m
             /\ deployments'[d].version = v
             /\ deployments'[d].status = "active"
             /\ deployments'[d].previous_deployment = DictGet(deployments, d)
             /\ deployments'[d].rollback_from = None
             /\ \A o \in SlotNames \ {d} :
                  DictGet(deployments', o) = DictGet(deployments, o)
      ]_vars

\* C11 witness: a deploy has replaced an existing slot while the other
\* deployment name has a slot too.
C11_Witness ==
    \E d \in DOMAIN deployments :
      /\ last = DeployOk(deployments[d].model_id, deployments[d].version, d)
      /\ deployments[d].previous_deployment # None
      /\ deployments[d].previous_deployment[1].version # deployments[d].version
      /\ \E o \in DOMAIN deployments : o # d

\* C12: a successful rollback replaces the slot by one with the model_id
\* and version of its previous_deployment snapshot, status active and
\* rollback_from equal to the slot content from before the call; the slots
\* of other names are unchanged.
C12_RollbackWritesSlot ==
    [][ \A d \in SlotNames :
          last' = RollbackOk(d)
          => /\ d \in DOMAIN deployments
             /\ deployments[d].previous_deployment # None
             /\ deployments'[d].model_id =
                  deployments[d].previous_deployment[1].model_id
             /\ deployments'[d].version =
                  deployments[d].previous_deployment[1].version
             /\ deployments'[d].status = "active"
             /\ deployments'[d].rollback_from = Some(deployments[d])
             /\ \A o \in SlotNames \ {d} :
                  DictGet(deployments', o) = DictGet(deployments, o)
      ]_vars

\* C12 witness: a rollback has restored another version while the other
\* deployment name has a slot too.
C12_Witness ==
    \E d \in DOMAIN deployments :
      /\ last = RollbackOk(d)
      /\ deployments[d].rollback_from # None
      /\ deployments[d].rollback_from[1].version # deployments[d].version
      /\ \E o \in DOMAIN deployments : o # d

\* C13: rollback fails with NotFound when deployment_name has no slot and
\* with InvalidOperation when the slot has no previous_deployment; in both
\* cases deployments and every deployment_status are unchanged.
C13_RollbackRefusals ==
    [][ \A d \in SlotNames :
          (last'.op = "rollback" /\ last'.deployment_name = d)
          => /\ d \notin DOMAIN deployments
                  => /\ last'.outcome = "NotFound"
                     /\ UNCHANGED <<deployments, versions>>
             /\ (d \in DOMAIN deployments /\ deployments[d].previous_deployment = None)
                  => /\ last'.outcome = "InvalidOperation"
                     /\ UNCHANGED <<deployments, versions>>
      ]_vars

\* C13 witness: a rollback of a name without a slot has been refused while
\* the other name has a deployed slot.
C13_Witness ==
    /\ last.op = "rollback" /\ last.outcome = "NotFound"
    /\ last.deployment_name \notin DOMAIN deployments
    /\ DOMAIN deployments # {}

\* the failures a caller's own arguments cause, and the operations that mutate
CallerErrors == { "NotFound", "AlreadyExists", "InvalidOperation" }

MutatingOps == { "register", "create", "deploy", "rollback", "tag", "metrics", "delete" }

\* C14: every call of register_model, create_version, deploy_version,
\* rollback_deployment, tag_version, update_performance_metrics or
\* delete_version that fails with NotFound, AlreadyExists or
\* InvalidOperation leaves models, versions, deployments and the artifacts
\* exactly as they were before the call.
C14_RefusalsChangeNothing ==
    [][ (last'.op \in MutatingOps /\ last'.outcome \in CallerErrors)
        => UNCHANGED <<models, versions, deployments, artifacts>>
      ]_vars

\* C14 witness: an unforced delete of a deployed version has been refused
\* in a registry that holds an entry with a counted version, a tagged
\* record, a slot and an artifact.
C14_Witness ==
    /\ last.op = "delete" /\ last.outcome = "InvalidOperation"
    /\ \E m \in DOMAIN models : models[m].total_versions > 0
    /\ \E k \in DOMAIN versions : versions[k].tags # << >>
    /\ DOMAIN deployments # {}
    /\ DOMAIN artifacts # {}

\* C15: every public operation ends with a result envelope, never with an
\* exception reaching the caller, whichever write to models.json,
\* versions.json, deployments.json or the artifact raises, the compensating
\* write of deploy_version included.
C15_AlwaysEnvelope ==
    last.fault # "none" => last.outcome # "raised"

\* C16: when a write raises in deploy_version called with
\* rollback_on_failure = True on a deployment name that had a slot, and the
\* call returns its failure envelope, the slot of that name equals the slot
\* from before the call.
C16_FailedDeployRestoresSlot ==
    [][ \A d \in DeploymentNames :
          ( /\ last'.op = "deploy" /\ last'.deployment_name = d
            /\ last'.fault # "none" /\ last'.rollback_on_failure
            /\ last'.outcome = "PersistenceError"
            /\ d \in DOMAIN deployments )
          => /\ d \in DOMAIN deployments'
             /\ deployments'[d] = deployments[d]
      ]_vars

\* C16 witness: a deploy with rollback_on_failure of another version than
\* the slot's has returned its persistence failure, and the slot, which has
\* a history of its own, names the version it named before.
C16_Witness ==
    /\ last.op = "deploy" /\ last.outcome = "PersistenceError"
    /\ last.rollback_on_failure
    /\ last.deployment_name \in DOMAIN deployments
    /\ deployments[last.deployment_name].version # last.version
    /\ deployments[last.deployment_name].previous_deployment # None

\* C17: when the artifact write of create_version raises, the call returns
\* its failure envelope, no VersionRecord is added and every ModelEntry,
\* latest_version and total_versions included, is as before.
C17_FailedArtifactWrite ==
    [][ (last'.op = "create" /\ last'.fault = "artifact")
        => /\ last'.outcome = "PersistenceError"
           /\ versions' = versions
           /\ models' = models
      ]_vars

\* C17 witness: the artifact write of a second version of a model has
\* failed, leaving a truncated file, and the model still counts one version.
C17_Witness ==
    /\ last.op = "create" /\ last.fault = "artifact"
    /\ VersionKey(last.model_id, last.version) \notin DOMAIN versions
    /\ ArtifactPath(last.model_id, last.version) \in DOMAIN artifacts
    /\ last.model_id \in DOMAIN models
    /\ models[last.model_id].total_versions = 1

\* a create_version call that returned success
CreateOk(model_id, version) == Call("create", model_id, version, "-", FALSE, "ok")

\* C18: a successful create_version(model_id, version) adds exactly one
\* VersionRecord, with deployment_status created, makes version the
\* latest_version of the model and raises its total_versions by exactly 1;
\* the other records, the other models' entries and every slot are unchanged.
C18_CreateEffect ==
    [][ \A m \in ModelIds, v \in VersionIds :
          last' = CreateOk(m, v)
          => LET k == VersionKey(m, v) IN
             /\ k \notin DOMAIN versions
             /\ DOMAIN versions' = (DOMAIN versions) \cup {k}
             /\ \A o \in DOMAIN versions : versions'[o] = versions[o]
             /\ versions'[k].model_id = m /\ versions'[k].version = v
             /\ versions'[k].deployment_status = "created"
             /\ DOMAIN models' = DOMAIN models
             /\ models'[m].latest_version = Some(v)
             /\ models'[m].total_versions = models[m].total_versions + 1
             /\ \A o \in (DOMAIN models) \ {m} : models'[o] = models[o]
             /\ deployments' = deployments
      ]_vars

\* C18 witness: a version has just been created for one model while another
\* model has a version of its own and a slot is in use; and, for the
\* scenario of the claim, the created version is the model's first.
C18_Witness ==
    /\ last.op = "create" /\ last.outcome = "ok"
    /\ models[last.model_id].latest_version = Some(last.version)
    /\ models[last.model_id].total_versions = 1
    /\ \E o \in DOMAIN models : o # last.model_id /\ models[o].total_versions = 1
    /\ DOMAIN deployments # {}

\* C19: create_version fails with NotFound when model_id is not registered
\* and with AlreadyExists when a record is stored under model_id:version; in
\* the AlreadyExists case the stored record and the stored artifact stay as
\* they are.
C19_CreateRefusals ==
    [][ \A m \in ModelIds, v \in VersionIds :
          (last'.op = "create" /\ last'.model_id = m /\ last'.version = v)
          => /\ m \notin DOMAIN models => last'.outcome = "NotFound"
             /\ (m \in DOMAIN models /\ VersionKey(m, v) \in DOMAIN versions)
                  => /\ last'.outcome = "AlreadyExists"
                     /\ versions' = versions
                     /\ artifacts' = artifacts
      ]_vars

\* C19 witness: a second create_version of a stored version has been
\* refused; its record and its artifact, with the recorded digest, are there.
C19_Witness ==
    /\ last.op = "create" /\ last.outcome = "AlreadyExists"
    /\ VersionKey(last.model_id, last.version) \in DOMAIN versions
    /\ versions[VersionKey(last.model_id, last.version)].version = last.version
    /\ ArtifactPath(last.model_id, last.version) \in DOMAIN artifacts
    /\ versions[VersionKey(last.model_id, last.version)].model_hash
         = Some(Digest(artifacts[ArtifactPath(last.model_id, last.version)]))

\* C20: in every reachable state, for every stored VersionRecord, the digest
\* of the artifact file stored for its (model_id, version) equals the
\* record's model_hash, after any sequence of create_version,
\* delete_version, deploy, rollback, tag and metric updates.
C20_HashMatchesArtifact ==
    \A k \in DOMAIN versions :
      LET model_file == ArtifactPath(versions[k].model_id, versions[k].version) IN
      /\ model_file \in DOMAIN artifacts
      /\ versions[k].model_hash = Some(Digest(artifacts[model_file]))

(* ------------------ records with all their fields --------------------- *)

\* ids, types, descriptions and optional create_version arguments of the
\* specification that fills every field of a record
RecordModelIds == { <<"a">> }

RecordVersionIds == { <<"1">>, <<"2">> }

ModelTypes == { "qsar", "admet" }

Descriptions == { "none", "tox" }

FullOptions ==
    [ training_data       |-> Some(<<"y", "x">>),
      performance_metrics |-> Some("m0"),
      metadata            |-> Some([ k \in { "owner" } |-> "lab" ]),
      parent_version      |-> Some(<<"1">>) ]

CreateOptions == { NoOptions, FullOptions }

\* creations of the specification of full records
MaxRecordClock == 2

NextRecords ==
    \/ \E m \in RecordModelIds, t \in ModelTypes :
          register_model(m, t, DefaultDescription, DefaultTime)
    \/ \E m \in RecordModelIds, v \in RecordVersionIds, o \in CreateOptions :
          /\ clock < MaxRecordClock \/ CreateRefused(m, v)
          /\ create_version(m, v, DefaultInstance, o)
    \/ \E m \in RecordModelIds, v \in RecordVersionIds, d \in DeploymentNames :
          SlotDepth(d) < MaxOpsDepth /\ deploy_version(m, v, d)
    \/ \E d \in DeploymentNames :
          SlotDepth(d) <= MaxOpsDepth /\ rollback_deployment(d)
    \/ \E m \in RecordModelIds, v \in RecordVersionIds, t \in Tags :
          tag_version(m, v, t)
    \/ \E m \in RecordModelIds, v \in RecordVersionIds, u \in MetricUpdates :
          update_performance_metrics(m, v, u)
    \/ \E m \in RecordModelIds, v \in RecordVersionIds, f \in BOOLEAN :
          delete_version(m, v, f)

SpecRecords == Init /\ [][NextRecords]_vars

\* the fields of a VersionRecord that are fixed when it is created
ImmutableFields(r) ==
    << r.model_id, r.version, r.model_type, r.created_at, r.metadata,
       r.training_data_hash, r.model_hash, r.parent_version >>

MaxRegisterTime == 1

RegisterTimes == 0..MaxRegisterTime

\* registrations with every type, description and time, and the creations
\* and deletions that move latest_version and total_versions
NextRegister ==
    \/ \E m \in ModelIds, t \in ModelTypes, x \in Descriptions, now \in RegisterTimes :
          register_model(m, t, x, now)
    \/ \E m \in ModelIds, v \in VersionIds :
          /\ clock < MaxOpsClock \/ CreateRefused(m, v)
          /\ create_version(m, v, DefaultInstance, NoOptions)
    \/ \E m \in ModelIds, v \in VersionIds, f \in BOOLEAN : delete_version(m, v, f)

SpecRegister == Init /\ [][NextRegister]_vars

\* C22: register_model of an id that already has a ModelEntry fails
\* (AlreadyExists) and leaves every field of that entry (model_type,
\* description, created_at, latest_version, total_versions, status) as it
\* was; register_model of a new id stores an entry with total_versions 0,
\* no latest_version and status active.
C22_RegisterOnce ==
    [][ \A m \in ModelIds :
          (last'.op = "register" /\ last'.model_id = m)
          => IF m \in DOMAIN models
             THEN /\ last'.outcome = "AlreadyExists"
                  /\ m \in DOMAIN models'
                  /\ models'[m] = models[m]
             ELSE /\ last'.outcome = "ok"
                  /\ m \in DOMAIN models'
                  /\ models'[m].model_id = m
                  /\ models'[m].total_versions = 0
                  /\ models'[m].latest_version = None
                  /\ models'[m].status = "active"
      ]_vars

\* C22 witness: a model that has a version, registered with one type,
\* description and time, has been registered again and the call was refused.
C22_Witness ==
    /\ last.op = "register" /\ last.outcome = "AlreadyExists"
    /\ last.model_id \in DOMAIN models
    /\ models[last.model_id].total_versions = 1
    /\ models[last.model_id].latest_version # None
    /\ models[last.model_id].model_type = "admet"
    /\ models[last.model_id].description = "tox"
    /\ models[last.model_id].created_at = 1

(* --------------------------- identity --------------------------------- *)

\* C23: a version is identified by the pair (model_id, version): an
\* operation addressed to one pair never rejects on behalf of, or deletes,
\* the record of a different pair, for ids with ':' too, and the model_id of
\* every stored record has a ModelEntry.  A step removes a record only by a
\* delete_version addressed to the record's own pair, and create_version
\* answers AlreadyExists only when a record of the requested pair is stored.
C23_PairIdentity ==
    [][ /\ \A k \in DOMAIN versions :
             k \notin DOMAIN versions'
             => /\ last'.op = "delete"
                /\ versions[k].model_id = last'.model_id
                /\ versions[k].version = last'.version
        /\ (last'.op = "create" /\ last'.outcome = "AlreadyExists")
             => \E k \in DOMAIN versions :
                   /\ versions[k].model_id = last'.model_id
                   /\ versions[k].version = last'.version
        /\ \A k \in DOMAIN versions' : versions'[k].model_id \in DOMAIN models'
      ]_vars

(* ------------------------ read operations ----------------------------- *)

\* pickle.load(f): the instance, when the bytes are a complete pickle; a
\* file cut short has no STOP opcode and pickle.load raises
Unpickle(bytes) ==
    IF \E i \in ModelInstances : Pickle(i) = bytes
    THEN Some(CHOOSE i \in ModelInstances : Pickle(i) = bytes)
    ELSE None

\* what a read operation returns: the kind of envelope and its payload
Returned(outcome, result) == [ outcome |-> outcome, result |-> result ]

\* load_model(model_id, version) on collections ms, vs and the artifact
\* files; version is None when the caller omits it
LoadModel(ms, vs, tree, model_id, version) ==
    IF model_id \notin DOMAIN ms THEN Returned("NotFound", None)
    ELSE LET v == IF version = None THEN ms[model_id].latest_version ELSE version IN
         IF v = None THEN Returned("NoVersions", None)
         ELSE LET version_key == VersionKey(model_id, v[1])
                  model_file == ArtifactPath(model_id, v[1])
              IN  IF version_key \notin DOMAIN vs
                  THEN Returned("VersionNotFound", None)
                  ELSE IF model_file \notin DOMAIN tree
                  THEN Returned("ArtifactMissing", None)
                  ELSE IF Unpickle(tree[model_file]) = None
                  THEN Returned("LoadFailed", None)
                  ELSE Returned("ok",
                         Some([ model_id       |-> model_id,
                                version        |-> v[1],
                                model_instance |-> Unpickle(tree[model_file])[1],
                                version_info   |-> ToDict(vs[version_key]) ]))

RECURSIVE NewestFirst(_)
\* list.sort(key=created_at, reverse=True) of a set of version dicts
NewestFirst(dicts) ==
    IF dicts = {} THEN << >>
    ELSE LET newest == CHOOSE x \in dicts : \A o \in dicts : o.created_at <= x.created_at
         IN  << newest >> \o NewestFirst(dicts \ { newest })

\* list_versions(model_id); model_id is None when the caller omits it
ListVersions(ms, vs, model_id) ==
    IF model_id # None /\ model_id[1] # << >>
    THEN IF model_id[1] \notin DOMAIN ms THEN Returned("NotFound", None)
         ELSE LET model_versions ==
                    NewestFirst({ ToDict(vs[k]) :
                                  k \in { x \in DOMAIN vs :
                                          StartsWith(x, model_id[1] \o <<":">>) } })
              IN  Returned("ok", Some([ versions       |-> model_versions,
                                        total_versions |-> Len(model_versions) ]))
    ELSE LET all_versions == NewestFirst({ ToDict(vs[k]) : k \in DOMAIN vs })
         IN  Returned("ok", Some([ versions       |-> all_versions,
                                   total_versions |-> Len(all_versions) ]))

\* the stored records whose model_id field is m
RecordsOfModel(vs, m) == { vs[k] : k \in { x \in DOMAIN vs : vs[x].model_id = m } }

\* C24: load_model(model_id) without a version returns the instance and the
\* metadata of the version latest_version names, and succeeds in every
\* reachable state in which the model has at least one VersionRecord.
C24_LoadLatestSucceeds ==
    \A m \in DOMAIN models :
      RecordsOfModel(versions, m) # {}
      => LET r == LoadModel(models, versions, artifacts, m, None) IN
         /\ r.outcome = "ok"
         /\ Some(r.result[1].version) = models[m].latest_version
         /\ r.result[1].version_info.model_id = m
         /\ r.result[1].version_info.version = r.result[1].version

\* C25: list_versions(model_id) returns exactly the records whose model_id
\* is the argument, newest first, with total_versions the number returned;
\* list_versions() returns every record in the same order.
C25_ListExactlyOwn ==
    /\ \A m \in DOMAIN models :
         LET r == ListVersions(models, versions, Some(m)) IN
         /\ r.outcome = "ok"
         /\ { r.result[1].versions[i] : i \in 1..Len(r.result[1].versions) }
              = { ToDict(x) : x \in RecordsOfModel(versions, m) }
         /\ r.result[1].total_versions = Cardinality(RecordsOfModel(versions, m))
         /\ \A i \in 1..(Len(r.result[1].versions) - 1) :
              r.result[1].versions[i].created_at >= r.result[1].versions[i + 1].created_at
    /\ LET r == ListVersions(models, versions, None) IN
       /\ r.outcome = "ok"
       /\ { r.result[1].versions[i] : i \in 1..Len(r.result[1].versions) }
            = { ToDict(versions[k]) : k \in DOMAIN versions }
       /\ r.result[1].total_versions = Cardinality(DOMAIN versions)
       /\ \A i \in 1..(Len(r.result[1].versions) - 1) :
            r.result[1].versions[i].created_at >= r.result[1].versions[i + 1].created_at

(* ------------------------------ tags ---------------------------------- *)

TagNames == { "gold", "silver" }

\* tagging of two stored versions, with the operations that rewrite or
\* remove their records in between
NextTags ==
    \/ \E m \in ModelIds, v \in VersionIds, t \in TagNames : tag_version(m, v, t)
    \/ \E m \in ModelIds, v \in VersionIds, u \in MetricUpdates :
          update_performance_metrics(m, v, u)
    \/ \E m \in ModelIds, v \in VersionIds, d \in DeploymentNames :
          SlotDepth(d) < MaxOpsDepth /\ deploy_version(m, v, d)
    \/ \E m \in ModelIds, v \in VersionIds, f \in BOOLEAN : delete_version(m, v, f)

SpecTags == InitDeploy /\ [][NextTags]_vars

\* number of occurrences of tag in tags
TagCount(tags, tag) == Cardinality({ i \in 1..Len(tags) : tags[i] = tag })

\* C26: tag_version is idempotent: after a call on a stored version the tag
\* is in the record's tags exactly once, and a call with a tag the record
\* already has changes no state (nothing in memory, no file) and returns
\* success.
C26_TagIdempotent ==
    [][ \A m \in ModelIds, v \in VersionIds, t \in TagNames :
          (tag_version(m, v, t) /\ VersionKey(m, v) \in DOMAIN versions)
          => /\ last'.outcome = "ok"
             /\ TagCount(versions'[VersionKey(m, v)].tags, t) = 1
             /\ TagCount(versions[VersionKey(m, v)].tags, t) > 0
                  => /\ versions' = versions
                     /\ UNCHANGED <<models, deployments, artifacts, clock, files,
                                    flight, caller_metrics>>
      ]_vars

\* C26 witness: a version that carries two tags has been tagged again with
\* the first of them, and the tags are the two, once each.
C26_Witness ==
    /\ last.op = "tag" /\ last.outcome = "ok" /\ last.result = Some("gold")
    /\ VersionKey(last.model_id, last.version) \in DOMAIN versions
    /\ versions[VersionKey(last.model_id, last.version)].tags = <<"gold", "silver">>
    /\ files.versions.state = "ok"
    /\ VersionKey(last.model_id, last.version) \in DOMAIN files.versions.data
    /\ files.versions.data[VersionKey(last.model_id, last.version)].tags
         = <<"gold", "silver">>

(* ----------------------------- metrics -------------------------------- *)

\* C27: update_performance_metrics on a stored version sets each supplied
\* key, keeps the other keys, and changes neither the model_hash nor the
\* deployment_status of that version, nor any other version, ModelEntry or
\* DeploymentSlot.
C27_UpdateTouchesOneRecord ==
    [][ \A m \in RecordModelIds, v \in RecordVersionIds, u \in MetricUpdates :
          (update_performance_metrics(m, v, u) /\ VersionKey(m, v) \in DOMAIN versions)
          => LET k == VersionKey(m, v) IN
             /\ versions'[k].performance_metrics.val
                  = MetricsAfter(versions[k].performance_metrics.val, u)
             /\ versions'[k].model_hash = versions[k].model_hash
             /\ versions'[k].deployment_status = versions[k].deployment_status
             /\ \A o \in DOMAIN versions' : o # k => versions'[o] = versions[o]
             /\ models' = models
             /\ deployments' = deployments
      ]_vars

(* ----------------------------- compare -------------------------------- *)

\* a delta computed as val1 - val2
PerformanceDelta_Reversed(metrics1, metrics2) ==
    [ metric \in (DOMAIN metrics1) \cup (DOMAIN metrics2) |->
        (IF metric \in DOMAIN metrics1 THEN metrics1[metric] ELSE 0)
        - (IF metric \in DOMAIN metrics2 THEN metrics2[metric] ELSE 0) ]

\* the loop over set(v1 keys) | set(v2 keys): val2 - val1 with .get(metric, 0)
PerformanceDelta(metrics1, metrics2) ==
    [ metric \in (DOMAIN metrics1) \cup (DOMAIN metrics2) |->
        (IF metric \in DOMAIN metrics2 THEN metrics2[metric] ELSE 0)
        - (IF metric \in DOMAIN metrics1 THEN metrics1[metric] ELSE 0) ]

\* the 'version1' / 'version2' part of a comparison
ComparedVersion(version, v) ==
    [ version             |-> version,
      created_at          |-> v.created_at,
      performance_metrics |-> v.performance_metrics.val,
      deployment_status   |-> v.deployment_status,
      model_hash          |-> v.model_hash ]

\* compare_versions(model_id, version1, version2) on the collection vs
CompareVersions(vs, model_id, version1, version2) ==
    LET v1_key == VersionKey(model_id, version1)
        v2_key == VersionKey(model_id, version2)
    IN  IF v1_key \notin DOMAIN vs \/ v2_key \notin DOMAIN vs
        THEN Returned("NotFound", None)
        ELSE LET v1 == vs[v1_key]
                 v2 == vs[v2_key]
             IN  Returned("ok",
                   Some([ model_id    |-> model_id,
                          version1    |-> ComparedVersion(version1, v1),
                          version2    |-> ComparedVersion(version2, v2),
                          differences |->
                            [ performance_delta |->
                                PerformanceDelta(v1.performance_metrics.val,
                                                 v2.performance_metrics.val),
                              hash_different |-> (v1.model_hash # v2.model_hash),
                              training_data_different |->
                                (v1.training_data_hash # v2.training_data_hash) ] ]))

\* a call of compare_versions: only the answer is new
compare_versions(model_id, version1, version2) ==
    LET r == CompareVersions(versions, model_id, version1, version2) IN
    /\ last' = [ Call("compare", model_id, version1, "-", FALSE, r.outcome)
                 EXCEPT !.result = r.result ]
    /\ UNCHANGED <<models, versions, deployments, artifacts, clock, files, flight,
                   caller_metrics>>

\* metric updates with a key the caller's dicts do not have
CompareUpdates == { [ k \in { "r2" } |-> 7 ], [ k \in { "mae" } |-> 3 ] }

\* versions that differ in instance, training data and metrics, compared
NextCompare ==
    \/ \E m \in RecordModelIds : register_model(m, DefaultType, DefaultDescription, DefaultTime)
    \/ \E m \in RecordModelIds, v \in RecordVersionIds, i \in ModelInstances,
          o \in CreateOptions :
          /\ clock < MaxRecordClock \/ CreateRefused(m, v)
          /\ create_version(m, v, i, o)
    \/ \E m \in RecordModelIds, v \in RecordVersionIds, u \in CompareUpdates :
          update_performance_metrics(m, v, u)
    \/ \E m \in RecordModelIds, v1 \in RecordVersionIds, v2 \in RecordVersionIds :
          compare_versions(m, v1, v2)

SpecCompare == Init /\ [][NextCompare]_vars

\* C28: compare_versions(model_id, v1, v2) returns a delta for every key in
\* the union of the two versions' performance_metrics and for no other key,
\* delta[key] = (metric of v2, or 0) - (metric of v1, or 0), hash_different
\* = (the model_hash values differ), training_data_different = (the
\* training_data_hash values differ), and it changes no state.
C28_CompareResult ==
    [][ \A m \in RecordModelIds, v1 \in RecordVersionIds, v2 \in RecordVersionIds :
          ( /\ compare_versions(m, v1, v2)
            /\ VersionKey(m, v1) \in DOMAIN versions
            /\ VersionKey(m, v2) \in DOMAIN versions )
          => LET r1 == versions[VersionKey(m, v1)]
                 r2 == versions[VersionKey(m, v2)]
                 m1 == r1.performance_metrics.val
                 m2 == r2.performance_metrics.val
                 d  == last'.result[1].differences
             IN  /\ last'.outcome = "ok"
                 /\ DOMAIN d.performance_delta = (DOMAIN m1) \cup (DOMAIN m2)
                 /\ \A key \in DOMAIN d.performance_delta :
                      d.performance_delta[key]
                        = (IF key \in DOMAIN m2 THEN m2[key] ELSE 0)
                          - (IF key \in DOMAIN m1 THEN m1[key] ELSE 0)
                 /\ d.hash_different = (r1.model_hash # r2.model_hash)
                 /\ d.training_data_different
                      = (r1.training_data_hash # r2.training_data_hash)
                 /\ UNCHANGED <<models, versions, deployments, artifacts, clock,
                                files, flight, caller_metrics>>
      ]_vars

\* C28 witness: two versions with different artifacts and training data
\* have been compared; one metric is in both, one only in the second.
C28_Witness ==
    /\ last.op = "compare" /\ last.outcome = "ok"
    /\ last.result[1].differences.hash_different
    /\ last.result[1].differences.training_data_different
    /\ \E key \in DOMAIN last.result[1].differences.performance_delta :
         /\ key \notin DOMAIN last.result[1].version1.performance_metrics
         /\ last.result[1].differences.performance_delta[key] > 0
    /\ \E key \in DOMAIN last.result[1].differences.performance_delta :
         /\ key \in DOMAIN last.result[1].version1.performance_metrics
         /\ key \in DOMAIN last.result[1].version2.performance_metrics
         /\ last.result[1].differences.performance_delta[key] < 0

(* ------------------- create_version step by step ---------------------- *)

\* The statements of create_version after its checks, in program order:
\* open(model_file, 'wb'), pickle.dump, the read that computes model_hash,
\* self.versions[version_key] = ..., latest_version = ..., total_versions
\* += 1, the open and the json.dump of _save_versions, the open and the
\* json.dump of _save_models, return.  flight holds the call that is between
\* two of them: its arguments, its ModelVersion object and the statement it
\* runs next.

\* an order that saves models.json before versions.json
NextStep_ModelsFirst(pc) ==
    CASE pc = "begin"         -> "open"
      [] pc = "open"          -> "dump"
      [] pc = "dump"          -> "hash"
      [] pc = "hash"          -> "assign"
      [] pc = "assign"        -> "latest"
      [] pc = "latest"        -> "total"
      [] pc = "total"         -> "save_models"
      [] pc = "save_models"   -> "dump_models"
      [] pc = "dump_models"   -> "save_versions"
      [] pc = "save_versions" -> "dump_versions"
      [] pc = "dump_versions" -> "return"

\* an order that stores the record before the artifact is written
NextStep_AssignFirst(pc) ==
    CASE pc = "begin"         -> "assign"
      [] pc = "assign"        -> "open"
      [] pc = "open"          -> "dump"
      [] pc = "dump"          -> "hash"
      [] pc = "hash"          -> "latest"
      [] pc = "latest"        -> "total"
      [] pc = "total"         -> "save_versions"
      [] pc = "save_versions" -> "dump_versions"
      [] pc = "dump_versions" -> "save_models"
      [] pc = "save_models"   -> "dump_models"
      [] pc = "dump_models"   -> "return"

\* the statement that follows pc in create_version
NextStep(pc) ==
    CASE pc = "begin"         -> "open"
      [] pc = "open"          -> "dump"
      [] pc = "dump"          -> "hash"
      [] pc = "hash"          -> "assign"
      [] pc = "assign"        -> "latest"
      [] pc = "latest"        -> "total"
      [] pc = "total"         -> "save_versions"
      [] pc = "save_versions" -> "dump_versions"
      [] pc = "dump_versions" -> "save_models"
      [] pc = "save_models"   -> "dump_models"
      [] pc = "dump_models"   -> "return"

\* the in-flight call is about to run statement pc
At(pc) == flight # None /\ flight[1].pc = pc

\* the in-flight call moves on to its next statement
Advance == flight' = Some([ flight[1] EXCEPT !.pc = NextStep(@) ])

FlightKey == VersionKey(flight[1].model_id, flight[1].version)

FlightFile == ArtifactPath(flight[1].model_id, flight[1].version)

\* the checks, the ModelVersion construction and mkdir
create_version_begin(model_id, version, model_instance, opts) ==
    /\ flight = None
    /\ CreateGuard(models, versions, model_id, version) = "ok"
    /\ clock' = clock + 1
    /\ flight' = Some([ model_id       |-> model_id,
                        version        |-> version,
                        model_instance |-> model_instance,
                        model_version  |-> PreparedVersion(models[model_id], model_id,
                                                           version, clock + 1, opts,
                                                           caller_metrics),
                        pc             |-> NextStep("begin") ])
    /\ UNCHANGED <<models, versions, deployments, artifacts, last, files, caller_metrics>>

\* open(model_file, 'wb'): the file is there and empty
create_version_open ==
    /\ At("open")
    /\ artifacts' = DictPut(artifacts, FlightFile, << >>)
    /\ Advance
    /\ UNCHANGED <<models, versions, deployments, clock, last, files, caller_metrics>>

\* pickle.dump(model_instance, f): one more byte reaches the file, or, all
\* bytes written, the with block closes it
create_version_dump ==
    /\ At("dump")
    /\ LET model_content == Pickle(flight[1].model_instance)
           written == IF FlightFile \in DOMAIN artifacts
                      THEN Len(artifacts[FlightFile]) ELSE 0
       IN  IF written < Len(model_content)
           THEN /\ artifacts' = DictPut(artifacts, FlightFile,
                                        SubSeq(model_content, 1, written + 1))
                /\ UNCHANGED flight
           ELSE /\ Advance
                /\ UNCHANGED artifacts
    /\ UNCHANGED <<models, versions, deployments, clock, last, files, caller_metrics>>

\* model_content = f.read(); model_version.model_hash = md5(model_content)
create_version_hash ==
    /\ At("hash")
    /\ FlightFile \in DOMAIN artifacts
    /\ flight' = Some([ flight[1] EXCEPT
                          !.model_version = CreatedVersion(@, artifacts[FlightFile]),
                          !.pc = NextStep(@) ])
    /\ UNCHANGED <<models, versions, deployments, artifacts, clock, last, files,
                   caller_metrics>>

\* self.versions[version_key] = model_version
create_version_assign ==
    /\ At("assign")
    /\ versions' = DictPut(versions, FlightKey, flight[1].model_version)
    /\ Advance
    /\ UNCHANGED <<models, deployments, artifacts, clock, last, files, caller_metrics>>

\* self.models[model_id]['latest_version'] = version
create_version_latest ==
    /\ At("latest")
    /\ models' = [ models EXCEPT
                     ![flight[1].model_id].latest_version = Some(flight[1].version) ]
    /\ Advance
    /\ UNCHANGED <<versions, deployments, artifacts, clock, last, files, caller_metrics>>

\* self.models[model_id]['total_versions'] += 1
create_version_total ==
    /\ At("total")
    /\ models' = [ models EXCEPT ![flight[1].model_id].total_versions = @ + 1 ]
    /\ Advance
    /\ UNCHANGED <<versions, deployments, artifacts, clock, last, files, caller_metrics>>

\* _save_versions: open(self.versions_file, 'w') empties the file
create_version_save_versions ==
    /\ At("save_versions")
    /\ files' = [ files EXCEPT !.versions = TruncatedFile ]
    /\ Advance
    /\ UNCHANGED <<models, versions, deployments, artifacts, clock, last, caller_metrics>>

\* _save_versions: json.dump completes
create_version_dump_versions ==
    /\ At("dump_versions")
    /\ files' = SaveVersions(files, versions)
    /\ Advance
    /\ UNCHANGED <<models, versions, deployments, artifacts, clock, last, caller_metrics>>

\* _save_models: open(self.models_file, 'w') empties the file
create_version_save_models ==
    /\ At("save_models")
    /\ files' = [ files EXCEPT !.models = TruncatedFile ]
    /\ Advance
    /\ UNCHANGED <<models, versions, deployments, artifacts, clock, last, caller_metrics>>

\* _save_models: json.dump completes
create_version_dump_models ==
    /\ At("dump_models")
    /\ files' = SaveModels(files, models)
    /\ Advance
    /\ UNCHANGED <<models, versions, deployments, artifacts, clock, last, caller_metrics>>

\* return {'success': True, ...}
create_version_return ==
    /\ At("return")
    /\ last' = Call("create", flight[1].model_id, flight[1].version, "-", FALSE, "ok")
    /\ flight' = None
    /\ UNCHANGED <<models, versions, deployments, artifacts, clock, files, caller_metrics>>

\* _load_models / _load_deployments: json.load of a file, {} when absent
LoadDict(file) == IF file.state = "ok" THEN file.data ELSE EmptyDict

\* _load_versions
LoadVersions(file) ==
    [ k \in DOMAIN LoadDict(file) |-> FromDict(LoadDict(file)[k]) ]

\* json.load raises on a file that is no complete document
Loadable(fs) ==
    /\ fs.models.state # "truncated"
    /\ fs.versions.state # "truncated"
    /\ fs.deployments.state # "truncated"

\* ModelRegistry.__init__ in a new process could not load its files
Unloaded == last.op = "reload" /\ last.outcome = "raised"

\* The process stops wherever it is and a new one constructs the registry
\* from the files.  When json.load raises, __init__ raises and there is no
\* registry object: the collections are empty and no operation can be called.
crash_reload ==
    /\ flight' = None
    /\ caller_metrics' = InitCallerMetrics
    /\ IF Loadable(files)
       THEN /\ models' = LoadDict(files.models)
            /\ versions' = LoadVersions(files.versions)
            /\ deployments' = LoadDict(files.deployments)
            /\ last' = Call("reload", None, None, "-", FALSE, "ok")
       ELSE /\ models' = EmptyDict
            /\ versions' = EmptyDict
            /\ deployments' = EmptyDict
            /\ last' = Call("reload", None, None, "-", FALSE, "raised")
    /\ UNCHANGED <<artifacts, clock, files>>

\* a call of load_model; version is None when the caller omits it
load_model(model_id, version) ==
    LET r == LoadModel(models, versions, artifacts, model_id, version) IN
    /\ last' = [ Call("load", model_id, IF version = None THEN None ELSE version[1],
                      "-", FALSE, r.outcome)
                 EXCEPT !.result = r.result ]
    /\ UNCHANGED <<models, versions, deployments, artifacts, clock, files, flight,
                   caller_metrics>>

\* creations the step specification starts
MaxStepClock == 2

LoadArguments == { None } \cup { Some(v) : v \in RecordVersionIds }

\* One create_version at a time runs statement by statement, load_model
\* calls and a crash with restart may come between any two statements;
\* register_model and delete_version run when no create is in flight.
NextSteps ==
    \/ \E m \in RecordModelIds :
          /\ flight = None /\ ~Unloaded
          /\ register_model(m, DefaultType, DefaultDescription, DefaultTime)
    \/ \E m \in RecordModelIds, v \in RecordVersionIds, i \in ModelInstances :
          /\ clock < MaxStepClock /\ ~Unloaded
          /\ create_version_begin(m, v, i, NoOptions)
    \/ create_version_open
    \/ create_version_dump
    \/ create_version_hash
    \/ create_version_assign
    \/ create_version_latest
    \/ create_version_total
    \/ create_version_save_versions
    \/ create_version_dump_versions
    \/ create_version_save_models
    \/ create_version_dump_models
    \/ create_version_return
    \/ \E m \in RecordModelIds, v \in RecordVersionIds, f \in BOOLEAN :
          /\ flight = None /\ ~Unloaded
          /\ delete_version(m, v, f)
    \/ \E m \in RecordModelIds, a \in LoadArguments : ~Unloaded /\ load_model(m, a)
    \/ crash_reload

SpecSteps == Init /\ [][NextSteps]_vars

\* a record, stored or persisted, that carries a model_hash has its
\* artifact file, complete, with that digest
HashHasArtifact(model_id, version, model_hash) ==
    model_hash # None
    => /\ ArtifactPath(model_id, version) \in DOMAIN artifacts
       /\ Unpickle(artifacts[ArtifactPath(model_id, version)]) # None
       /\ Some(Digest(artifacts[ArtifactPath(model_id, version)])) = model_hash

\* every latest_version of the entries ms names a record of the keys
LatestHasRecord(ms, keys) ==
    \A m \in DOMAIN ms :
      ms[m].latest_version # None
      => VersionKey(m, ms[m].latest_version[1]) \in keys

\* C29: at every intermediate step of create_version, in memory and in the
\* persisted files (so also in the registry a restart loads after a crash
\* between any two steps), the artifact exists before a record carrying its
\* hash exists, and the VersionRecord of model_id:version exists before the
\* ModelEntry's latest_version names that version.
C29_CreateOrder ==
    /\ \A k \in DOMAIN versions :
         HashHasArtifact(versions[k].model_id, versions[k].version,
                         versions[k].model_hash)
    /\ flight # None
         => HashHasArtifact(flight[1].model_id, flight[1].version,
                            flight[1].model_version.model_hash)
    /\ LatestHasRecord(models, DOMAIN versions)
    /\ \A k \in DOMAIN LoadDict(files.versions) :
         HashHasArtifact(files.versions.data[k].model_id,
                         files.versions.data[k].version,
                         files.versions.data[k].model_hash)
    /\ Loadable(files)
         => LatestHasRecord(LoadDict(files.models), DOMAIN LoadDict(files.versions))

\* C29 witness: the process stopped after versions.json was written and
\* before models.json was; the restarted registry has the record and its
\* artifact while the ModelEntry still counts no version.
C29_Witness ==
    /\ last.op = "reload" /\ last.outcome = "ok"
    /\ \E k \in DOMAIN versions :
         /\ models[versions[k].model_id].total_versions = 0
         /\ models[versions[k].model_id].latest_version = None
         /\ versions[k].model_hash
              = Some(Digest(artifacts[ArtifactPath(versions[k].model_id,
                                                   versions[k].version)]))

\* C30: a load_model call that comes between two statements of an in-flight
\* create_version of the same (model_id, version) never returns a partially
\* written artifact: it fails with version not found, or it returns the
\* instance of the completely written file, whose digest is the recorded
\* model_hash.
C30_LoadDuringCreate ==
    [][ \A m \in RecordModelIds, a \in LoadArguments :
          ( /\ load_model(m, a)
            /\ flight # None
            /\ flight[1].model_id = m
            /\ (IF a = None THEN models[m].latest_version ELSE a)
                 = Some(flight[1].version) )
          => \/ last'.outcome = "VersionNotFound"
             \/ /\ last'.outcome = "ok"
                /\ last'.result[1].model_instance = flight[1].model_instance
                /\ artifacts[FlightFile] = Pickle(flight[1].model_instance)
                /\ last'.result[1].version_info.model_hash
                     = Some(Digest(artifacts[FlightFile]))
                /\ versions[FlightKey].model_hash = Some(Digest(artifacts[FlightFile]))
      ]_vars

\* C30 witness: load_model returned the version of a create_version that has
\* stored its record and has not yet set latest_version.
C30_Witness ==
    /\ last.op = "load" /\ last.outcome = "ok"
    /\ At("latest")
    /\ last.model_id = flight[1].model_id
    /\ last.result[1].version = flight[1].version
    /\ last.result[1].model_instance = "forest"

(* ------------------ slots and statuses, all operations ---------------- *)

\* The two deployment names of SpecSlots with the deletions, forced or
\* not, of the versions the slots name.
NextFleet ==
    \/ \E m \in ModelIds, v \in VersionIds, d \in SlotNames :
          SlotDepth(d) < MaxOpsDepth + 1 /\ deploy_version(m, v, d)
    \/ \E d \in SlotNames :
          SlotDepth(d) <= MaxOpsDepth + 1 /\ rollback_deployment(d)
    \/ \E m \in ModelIds, v \in VersionIds, f \in BOOLEAN : delete_version(m, v, f)

SpecFleet == InitDeploy /\ [][NextFleet]_vars

\* the keys of the versions that are the active version of some slot
ActiveKeys(ds) == { SlotKey(ds[d]) : d \in DOMAIN ds }

\* C31: in every reachable state (operations serialized, no persistence
\* failure) a version that is the active version of any DeploymentSlot has
\* deployment_status = deployed, also when several deployment names share
\* one version, after redeploys and after rollbacks.
C31_ActiveIsDeployed ==
    \A k \in ActiveKeys(deployments) :
      k \in DOMAIN versions => StatusOf(versions, k) = "deployed"

\* C32: delete_version with force = false never removes a version that is
\* the active version of some DeploymentSlot.
C32_UnforcedKeepsActive ==
    [][ \A m \in ModelIds, v \in VersionIds :
          last' = DeleteCall(m, v, FALSE, "ok")
          => VersionKey(m, v) \notin ActiveKeys(deployments) ]_vars

\* C33: in every reachable state the (model_id, version) each
\* DeploymentSlot names as active is an existing VersionRecord; neither
\* delete_version, forced or not, nor rollback leaves a slot that points at
\* a deleted version.
C33_SlotsNameRecords ==
    \A k \in ActiveKeys(deployments) : k \in DOMAIN versions

(* --------------------- counters and latest version -------------------- *)

\* C34: in every state reached by completed operations without persistence
\* failure, each ModelEntry's total_versions equals the number of stored
\* VersionRecords whose model_id is that model.
C34_TotalCountsRecords ==
    \A m \in DOMAIN models :
      models[m].total_versions = Cardinality(RecordsOfModel(versions, m))

\* C35: in every state reached by completed operations, a ModelEntry's
\* latest_version is null exactly when the model has no VersionRecord;
\* otherwise it names a stored VersionRecord of that model, the one with the
\* greatest created_at among the model's versions.
C35_LatestIsNewest ==
    \A m \in DOMAIN models :
      IF RecordsOfModel(versions, m) = {}
      THEN models[m].latest_version = None
      ELSE \E r \in RecordsOfModel(versions, m) :
             /\ models[m].latest_version = Some(r.version)
             /\ \A o \in RecordsOfModel(versions, m) : o.created_at <= r.created_at

\* C36: in every state reached by completed operations without persistence
\* failure, every VersionRecord with deployment_status = deployed is the
\* active version of at least one DeploymentSlot.
C36_DeployedIsActive ==
    \A k \in DOMAIN versions :
      versions[k].deployment_status = "deployed" => k \in ActiveKeys(deployments)

\* C36 witness: a slot has been rolled back; the version it came from is
\* stored, rolled_back and active nowhere, the version it returned to is
\* deployed, and another slot holds a deployed version too.
C36_Witness ==
    \E d \in DOMAIN deployments, o \in DOMAIN deployments :
      /\ d # o
      /\ deployments[d].rollback_from # None
      /\ SlotKey(deployments[d].rollback_from[1]) \in DOMAIN versions
      /\ SlotKey(deployments[d].rollback_from[1]) \notin ActiveKeys(deployments)
      /\ StatusOf(versions, SlotKey(deployments[d].rollback_from[1])) = "rolled_back"
      /\ SlotKey(deployments[d]) \in DOMAIN versions
      /\ StatusOf(versions, SlotKey(deployments[d])) = "deployed"
      /\ SlotKey(deployments[o]) \in DOMAIN versions
      /\ StatusOf(versions, SlotKey(deployments[o])) = "deployed"

(* ------------------- interleaved deploy_version calls ----------------- *)

\* The statements of deploy_version in program order: the key check, the
\* read of the current slot, the slot assignment, the deployed write, the
\* superseded write, _save_deployments, _save_versions, return.  Here
\* flight is the sequence of the deploy_version calls that have been
\* entered, each with its arguments, its local current_deployment and the
\* statement it runs next ("done" once it has returned).  Callers hold a
\* lock per model_id, so two calls on one model never overlap.
MaxCallers == 2

\* call i is about to run statement pc
DeployAt(i, pc) == i \in 1..Len(flight) /\ flight[i].pc = pc

\* call i moves on to statement pc
DeployGoto(i, pc) == flight' = [ flight EXCEPT ![i].pc = pc ]

DeployKey(i) == VersionKey(flight[i].model_id, flight[i].version)

deploy_version_begin(model_id, version, deployment_name) ==
    /\ Len(flight) < MaxCallers
    /\ \A i \in 1..Len(flight) :
         flight[i].pc # "done" => flight[i].model_id # model_id
    /\ flight' = Append(flight, [ model_id           |-> model_id,
                                  version            |-> version,
                                  deployment_name    |-> deployment_name,
                                  current_deployment |-> None,
                                  pc                 |-> "check" ])
    /\ UNCHANGED <<models, versions, deployments, artifacts, clock, last, files,
                   caller_metrics>>

\* if version_key not in self.versions: return the NotFound envelope
deploy_version_check(i) ==
    /\ DeployAt(i, "check")
    /\ IF DeployKey(i) \notin DOMAIN versions
       THEN /\ DeployGoto(i, "done")
            /\ last' = Call("deploy", flight[i].model_id, flight[i].version,
                            flight[i].deployment_name, FALSE, "NotFound")
       ELSE /\ DeployGoto(i, "get")
            /\ UNCHANGED last
    /\ UNCHANGED <<models, versions, deployments, artifacts, clock, files,
                   caller_metrics>>

\* current_deployment = self.deployments.get(deployment_name)
deploy_version_get(i) ==
    /\ DeployAt(i, "get")
    /\ flight' = [ flight EXCEPT
                     ![i].current_deployment =
                         DictGet(deployments, flight[i].deployment_name),
                     ![i].pc = "slot" ]
    /\ UNCHANGED <<models, versions, deployments, artifacts, clock, last, files,
                   caller_metrics>>

\* self.deployments[deployment_name] = {...}
deploy_version_slot(i) ==
    /\ DeployAt(i, "slot")
    /\ deployments' = DictPut(deployments, flight[i].deployment_name,
                              DeployedSlot(flight[i].model_id, flight[i].version,
                                           flight[i].current_deployment))
    /\ DeployGoto(i, "deployed")
    /\ UNCHANGED <<models, versions, artifacts, clock, last, files, caller_metrics>>

\* self.versions[version_key].deployment_status = "deployed"
deploy_version_deployed(i) ==
    /\ DeployAt(i, "deployed")
    /\ versions' = [ versions EXCEPT ![DeployKey(i)].deployment_status = "deployed" ]
    /\ DeployGoto(i, "supersede")
    /\ UNCHANGED <<models, deployments, artifacts, clock, last, files, caller_metrics>>

\* if current_deployment: ... deployment_status = "superseded"
deploy_version_supersede(i) ==
    /\ DeployAt(i, "supersede")
    /\ LET current_deployment == flight[i].current_deployment IN
       IF current_deployment # None /\ SlotKey(current_deployment[1]) \in DOMAIN versions
       THEN versions' = [ versions EXCEPT
                ![SlotKey(current_deployment[1])].deployment_status = "superseded" ]
       ELSE UNCHANGED versions
    /\ DeployGoto(i, "save_deployments")
    /\ UNCHANGED <<models, deployments, artifacts, clock, last, files, caller_metrics>>

\* self._save_deployments()
deploy_version_save_deployments(i) ==
    /\ DeployAt(i, "save_deployments")
    /\ files' = SaveDeployments(files, deployments)
    /\ DeployGoto(i, "save_versions")
    /\ UNCHANGED <<models, versions, deployments, artifacts, clock, last,
                   caller_metrics>>

\* self._save_versions()
deploy_version_save_versions(i) ==
    /\ DeployAt(i, "save_versions")
    /\ files' = SaveVersions(files, versions)
    /\ DeployGoto(i, "return")
    /\ UNCHANGED <<models, versions, deployments, artifacts, clock, last,
                   caller_metrics>>

\* return the success envelope
deploy_version_return(i) ==
    /\ DeployAt(i, "return")
    /\ last' = Call("deploy", flight[i].model_id, flight[i].version,
                    flight[i].deployment_name, FALSE, "ok")
    /\ DeployGoto(i, "done")
    /\ UNCHANGED <<models, versions, deployments, artifacts, clock, files,
                   caller_metrics>>

\* The registry as it is after register_model("a"), register_model("a:b"),
\* create_version("a", "1"), create_version("a:b", "1").
InitRaceEntry(model_id) ==
    [ ModelEntry(model_id, DefaultType, DefaultDescription, DefaultTime) EXCEPT
        !.latest_version = Some(<<"1">>),
        !.total_versions = 1 ]

InitRaceVersion(model_id, created_at) ==
    CreatedVersion(PreparedVersion(InitRaceEntry(model_id), model_id, <<"1">>,
                                   created_at, NoOptions, InitCallerMetrics),
                   Pickle(DefaultInstance))

InitRace ==
    /\ models = [ m \in ModelIds |-> InitRaceEntry(m) ]
    /\ versions = DictPut(DictPut(EmptyDict,
                    VersionKey(<<"a">>, <<"1">>), InitRaceVersion(<<"a">>, 1)),
                    VersionKey(<<"a", ":", "b">>, <<"1">>),
                    InitRaceVersion(<<"a", ":", "b">>, 2))
    /\ deployments = EmptyDict
    /\ artifacts = [ f \in { ArtifactPath(m, <<"1">>) : m \in ModelIds }
                       |-> Pickle(DefaultInstance) ]
    /\ clock = 2
    /\ last = Call("create", <<"a", ":", "b">>, <<"1">>, "-", FALSE, "ok")
    /\ files = SaveModels(SaveVersions(NoFiles, versions), models)
    /\ flight = None
    /\ caller_metrics = InitCallerMetrics

\* One deploy_version call may run alone first; then up to MaxCallers calls
\* are entered and run statement by statement.
NextRace ==
    \/ \E m \in ModelIds, v \in RecordVersionIds, d \in DeploymentNames :
          flight = None /\ deployments = EmptyDict /\ deploy_version(m, v, d)
    \/ \E m \in ModelIds, v \in RecordVersionIds, d \in DeploymentNames :
          deploy_version_begin(m, v, d)
    \/ \E i \in 1..MaxCallers : deploy_version_check(i)
    \/ \E i \in 1..MaxCallers : deploy_version_get(i)
    \/ \E i \in 1..MaxCallers : deploy_version_slot(i)
    \/ \E i \in 1..MaxCallers : deploy_version_deployed(i)
    \/ \E i \in 1..MaxCallers : deploy_version_supersede(i)
    \/ \E i \in 1..MaxCallers : deploy_version_save_deployments(i)
    \/ \E i \in 1..MaxCallers : deploy_version_save_versions(i)
    \/ \E i \in 1..MaxCallers : deploy_version_return(i)

SpecRace == InitRace /\ [][NextRace]_vars

\* two deploy_version calls for versions of two different models, on one
\* deployment name, have both returned success
BothDeployed(i, j) ==
    /\ i \in 1..Len(flight) /\ j \in 1..Len(flight) /\ i # j
    /\ flight[i].pc = "done" /\ flight[j].pc = "done"
    /\ flight[i].model_id # flight[j].model_id
    /\ flight[i].deployment_name = flight[j].deployment_name
    /\ DeployKey(i) \in DOMAIN versions /\ DeployKey(j) \in DOMAIN versions

\* call i's target is the deployed, active one and call j's target is
\* superseded and recorded as the slot's previous_deployment
WinnerAndLoser(i, j) ==
    LET slot == deployments[flight[i].deployment_name] IN
    /\ StatusOf(versions, DeployKey(i)) = "deployed"
    /\ SlotKey(slot) = DeployKey(i)
    /\ StatusOf(versions, DeployKey(j)) = "superseded"
    /\ slot.previous_deployment # None
    /\ SlotKey(slot.previous_deployment[1]) = DeployKey(j)

\* C37: when two deploy_version calls for versions of two different models
\* target one deployment name and interleave statement by statement, then
\* after both have returned exactly one target is deployed, it is the slot's
\* active version, and the other is superseded and is the slot's
\* previous_deployment.
C37_InterleavedDeploys ==
    \A i \in 1..MaxCallers, j \in 1..MaxCallers :
      (i < j /\ BothDeployed(i, j)) => (WinnerAndLoser(i, j) \/ WinnerAndLoser(j, i))

\* C38: when deploy_version returns its failure envelope after a write of
\* deployments.json or versions.json raised, with rollback_on_failure set
\* and a deployment present under the name before the call, every stored
\* version has the deployment_status it had before the call.
C38_FailedDeployKeepsStatuses ==
    [][ \A m \in ModelIds, v \in VersionIds, d \in DeploymentNames, x \in DeployFaults :
          ( /\ DictGet(deployments, d) # None
            /\ deploy_version_fault(m, v, d, TRUE, x, FALSE) )
          => /\ DOMAIN versions' = DOMAIN versions
             /\ \A k \in DOMAIN versions :
                  versions'[k].deployment_status = versions[k].deployment_status ]_vars

\* C39: whenever create_version returns the failure envelope of its except
\* clause, also when the write that raised was _save_versions or
\* _save_models after the artifact was written, self.versions has no record
\* under model_id:version and the ModelEntry's latest_version and
\* total_versions are as before the call, so that a retry is not refused
\* as AlreadyExists.
C39_FailedCreateLeavesNoRecord ==
    [][ \A m \in ModelIds, v \in VersionIds, i \in ModelInstances, x \in CreateFaults :
          ( /\ create_version_fault(m, v, i, x)
            /\ last'.outcome = "PersistenceError" )
          => /\ VersionKey(m, v) \notin DOMAIN versions'
             /\ models'[m].latest_version = models[m].latest_version
             /\ models'[m].total_versions = models[m].total_versions
             /\ CreateGuard(models', versions', m, v) = "ok" ]_vars

\* what a registry constructed on the files would hold equals what this
\* registry holds
PersistedEqualsMemory ==
    /\ Loadable(files)
    /\ LoadDict(files.models) = models
    /\ LoadDict(files.versions) = [ k \in DOMAIN versions |-> ToDict(versions[k]) ]
    /\ LoadDict(files.deployments) = deployments

\* C40: after every operation that returns success, models.json,
\* versions.json and deployments.json hold the in-memory models, versions
\* and deployments, so that a registry constructed on the same directory is
\* in the same state.
C40_PersistedEqualsMemory ==
    (last.op \in MutatingOps /\ last.outcome = "ok") => PersistedEqualsMemory

====
